---- MODULE Spec2Model ----
(***************************************************************************)
(* Model of the protocol transport (services/dtc_json_client.py), of the   *)
(* mode detector and its debounce (utils/trade_mode.py) and of the message *)
(* router (core/message_router.py).                                        *)
(*                                                                         *)
(* Transport: one DTCClientJSON object, the application thread that calls  *)
(* connect(), _send() and close() on it, and the two threads connect()     *)
(* starts, DTC_RX (_rx_loop) and DTC_HB (_hb_loop).  Each thread advances  *)
(* one statement group at a time, so that every interleaving of the reads  *)
(* and writes of self.sock and self._stop is a behaviour of the model.     *)
(*                                                                         *)
(* Bytes are modelled as one-character tokens.  "NUL" is the delimiter     *)
(* byte; "p" stands for the member text "Type":306 of a JSON object; "1"   *)
(* is a digit, "x" a byte no JSON text contains.  A Type of 0 in a decoded *)
(* record stands for a record without a "Type" member.                     *)
(*                                                                         *)
(* Router: each handler runs to its end in one step, on the one thread     *)
(* that calls it.  Messages enter by the Blinker signals (_on_*_signal)    *)
(* or through route() (_on_*_update).  Session State (StateManager) is     *)
(* modelled from the specification: a current mode, a per-mode balance     *)
(* map and a per-symbol open-position map whose entries carry the mode     *)
(* that was current when they were recorded.  One collaborator may raise  *)
(* from its methods; a call marshalled to the Qt thread runs in a later    *)
(* step.                                                                   *)
(*                                                                         *)
(* Classification and codec: _type_to_str and _dispatch_for_panels over    *)
(* every kind of "Type" value, and json.dumps / json.loads over messages   *)
(* whose strings are sequences of characters, one token per byte.          *)
(*                                                                         *)
(* Services: the trade logger the router writes to (services/              *)
(* trade_service.py), the retry of core/error_policy.py, the health        *)
(* watchdog of core/health_watchdog.py with one registered component, and  *)
(* the client over several connections, each with the two loops its        *)
(* connect() started.                                                      *)
(***************************************************************************)
EXTENDS Integers, Sequences, FiniteSets, TLC

\* ------------------------------------------------------------------ bounds
MaxSegs == 3
MaxChunk == 4
MaxSends == 1
MaxCloses == 1
MaxBeats == 1
MaxWire == 3
MaxAcctLen == 4
MaxCalls == 3
MaxEvents == 2
MaxStrLen == 2
MaxRetries == 3
MaxConnects == 2
MaxClock == 3

\* --------------------------------------------------------------- constants
NULL == "NUL"
POSITION_UPDATE == 306
DEBOUNCE_WINDOW_MS == 750
REQUIRED_CONSECUTIVE == 2
CANDIDATES_MAXLEN == 10

VARIABLES
    sock,        \* self.sock: "None" or "sock" (the socket object of connect())
    sockState,   \* the socket object itself: "unopened", "open", "shut", "closed"
    stop,        \* self._stop
    rx_buf,      \* self._rx_buf
    input,       \* the byte stream the peer sends, whole
    rpos,        \* how many bytes of input recv() has returned so far
    extracted,   \* the frames cut from the front of self._rx_buf, in order
    dispatched,  \* the decoded values handed to _dispatch_for_panels, in order
    delivered,   \* the calls made to consumer callbacks, in order
    hooked,      \* the decoded values handed to on_msg, in order
    dropped,     \* how many frames failed to decode
    rx_exc,      \* the exception that left _rx_loop, "none" when none did
    lastRecv,    \* how the latest pass through line 328 ended: none, data,
                 \* timeout, eof, error, not_called (self.sock was None)
    pc,          \* each thread's position
    ret,         \* each thread's return position for the call it is in
    tx,          \* each thread's pending sendall(): the bytes still to write
    wire,        \* the last MaxWire bytes written to the connection, oldest
                 \* first, each with its writer and its place in its frame
    sendResult,  \* what each thread's latest _send() did and what its caller saw
    beats,       \* number of heartbeats _hb_loop has begun to send
    appSends,    \* number of _send() calls the application made
    appCloses,   \* number of close() calls the application made
    disconnects, \* number of times on_disconnected was invoked
    released,    \* number of times the connection was released to the OS
    DEBUG_UI,    \* settings.DEBUG_UI
    DEBUG_CORE,  \* settings.DEBUG_CORE
    account,     \* the argument of detect_mode_from_account
    live_account,\* config.settings.LIVE_ACCOUNT
    mode,        \* the result of detect_mode_from_account, "unset" before the call
    now,         \* time.time() * 1000 as the latest debounce call read it
    mode_candidates,      \* trade_mode._mode_candidates, oldest first
    last_switch,          \* the latest should_switch_mode_debounced call
    r_current_mode,       \* MessageRouter._current_mode
    r_current_account,    \* MessageRouter._current_account
    state_current_mode,   \* Session State: current_mode
    state_positions,      \* Session State: the per-symbol open-position map
    state_balances,       \* Session State: the per-mode balance map
    state_current_account,\* Session State: current_account
    state_is_sim_mode,    \* Session State: is_sim_mode
    open_positions,       \* TradeManager._open_positions, per symbol
    calls,       \* the calls the latest handler issued to its collaborators
    last_msg,    \* the message the latest handler was given, whether Session
                 \* State held its symbol's position and whether a refresh
                 \* was pending then, and how it ended
    events,      \* number of messages handled and debounce calls made
    faulty,      \* the collaborator whose methods raise, "none" when none does
    qt_pending,  \* the _update_balance_ui calls marshalled to the Qt thread
                 \* and not yet run, oldest first
    qt_available,        \* whether QTimer.singleShot can be imported and called
    ui_refresh_pending,  \* MessageRouter._ui_refresh_pending
    ui_timers,           \* the single-shot timers armed and not yet fired
    rx_msg,      \* a decoded record about to be dispatched: its "Type" member
                 \* and whether it completes a seed
    raw_hooks,   \* which of on_msg and on_any_message the constructor was given
    routed,      \* what handling rx_msg did: the type name, the typed
                 \* consumers called, the raw-stream hooks called
    obj,         \* a message handed to _send
    encoded,     \* the bytes _send builds for obj
    decoded,     \* what the receive loop decodes from those bytes
    retry,       \* ErrorHandler: the recovery being executed for one error
    client,      \* a DTCClientJSON across connections: _stop, sock as the
                 \* number of the connect() that made it (0 is None), and
                 \* the sockets still open
    loops,       \* the _rx_loop and _hb_loop threads each connect() started
    clock,       \* time.time() as the watchdog and its components read it
    component,   \* one ComponentHealth registered with the HealthWatchdog
    checking     \* the watchdog thread inside _check_component_health

rxVars == <<rx_buf, input, rpos, extracted, dispatched, delivered, hooked, dropped, rx_exc, lastRecv>>
connVars == <<sock, sockState, stop, pc, ret, disconnects, released, appCloses>>
txVars == <<tx, wire, sendResult, appSends, beats>>
cfgVars == <<DEBUG_UI, DEBUG_CORE>>
modeVars == <<account, live_account, mode>>
debounceVars == <<now, mode_candidates, last_switch>>
\* Session State, and the trade logger the router writes along with it
sessionVars ==
    <<state_current_mode, state_positions, state_balances, state_current_account,
      state_is_sim_mode, open_positions>>
uiVars == <<qt_available, ui_refresh_pending, ui_timers>>
routerVars == <<debounceVars, sessionVars, r_current_mode, r_current_account,
                calls, last_msg, events, faulty, qt_pending, uiVars>>
svcVars == <<retry, client, loops, clock, component, checking>>
msgVars == <<rx_msg, raw_hooks, routed, obj, encoded, decoded, svcVars>>
vars == <<rxVars, connVars, txVars, cfgVars, modeVars, routerVars, msgVars>>

Threads == {"app", "rx", "hb"}

\* ------------------------------------------------------------ sequences
Range(s) == {s[i] : i \in 1..Len(s)}

Min(a, b) == IF a < b THEN a ELSE b

\* the last n elements of s
LastOf(s, n) == IF Len(s) <= n THEN s ELSE SubSeq(s, Len(s) - n + 1, Len(s))

\* bytearray.index(0): the first position holding the delimiter, 0 when none
IndexOfNull(buf) ==
    LET at == {i \in 1..Len(buf) : buf[i] = NULL}
    IN  IF at = {} THEN 0 ELSE CHOOSE i \in at : \A j \in at : i <= j

\* ------------------------------------------------------------ json.loads
Members == {"p"}

IsObjectText(raw) ==
    /\ Len(raw) \in {2, 3}
    /\ raw[1] = "{"
    /\ raw[Len(raw)] = "}"
    /\ Len(raw) = 3 => raw[2] \in Members

IsNumberText(raw) == Len(raw) >= 1 /\ \A i \in 1..Len(raw) : raw[i] = "1"

\* json.loads(raw.decode("utf-8")): a dict, an int, or a raised exception
json_loads(raw) ==
    IF IsObjectText(raw)
    THEN [ok |-> TRUE, kind |-> "dict",
          Type |-> IF Len(raw) = 2 THEN 0 ELSE POSITION_UPDATE]
    ELSE IF IsNumberText(raw)
    THEN [ok |-> TRUE, kind |-> "int", Type |-> 0]
    ELSE [ok |-> FALSE, kind |-> "error", Type |-> 0]

\* _type_to_str(msg.get("Type")) for the types the model's frames carry
type_to_str(t) == IF t = POSITION_UPDATE THEN "PositionUpdate" ELSE "?"

\* ------------------------------------------------------------- dispatch
\* _safe_call(label, cb, msg) with cb registered: "raise" when the consumer's
\* exception leaves _safe_call, "ok" otherwise
safe_call(debug_ui, cbRaises) ==
    IF ~debug_ui
    THEN (IF cbRaises THEN "raise" ELSE "ok")
    ELSE "ok"

\* _dispatch_for_panels(msg): the consumer calls it makes and whether an
\* exception leaves it.  msg.get on a value that is no dict raises at once.
dispatch_for_panels(msg, debug_ui, cbRaises) ==
    IF msg.kind # "dict"
    THEN [raised |-> TRUE, calls |-> <<>>]
    ELSE IF type_to_str(msg.Type) = "PositionUpdate"
    THEN [raised |-> safe_call(debug_ui, cbRaises) = "raise",
          calls |-> <<[cb |-> "on_position", msg |-> msg]>>]
    ELSE [raised |-> FALSE, calls |-> <<>>]

\* The except clause around _dispatch_for_panels: its body evaluates
\* msg.get("Type") when settings.DEBUG_UI is set, which raises again for a
\* value that is no dict.  TRUE when an exception leaves the clause.
dispatch_handler_raises(msg, debug_ui) == debug_ui /\ msg.kind # "dict"

\* The except clause around on_msg, the same under settings.DEBUG_CORE
on_msg_handler_raises(msg, debug_core) == debug_core /\ msg.kind # "dict"

\* One decoded frame through lines 353-373: what is handed to whom, and
\* whether an exception leaves the frame's handling (and so the loop).
handle_frame(msg, debug_ui, debug_core, cbRaises, hookRaises) ==
    LET d == dispatch_for_panels(msg, debug_ui, cbRaises)
        e1 == d.raised /\ dispatch_handler_raises(msg, debug_ui)
        e2 == hookRaises /\ on_msg_handler_raises(msg, debug_core)
    IN  [calls |-> d.calls,
         hook |-> ~e1,
         escaped |-> e1 \/ e2]

\* a buffer that is overwritten by each chunk instead of extended
Accumulate_overwrite(buf, chunk) == chunk

\* self._rx_buf.extend(chunk)
Accumulate(buf, chunk) == buf \o chunk

\* raw = self._rx_buf[:i]
FrameAt(buf, i) == SubSeq(buf, 1, i - 1)

\* a cut that empties the buffer
RestAfter_clearing(buf, i) == <<>>

\* del self._rx_buf[: i + 1]
RestAfter(buf, i) == SubSeq(buf, i + 1, Len(buf))

\* ----------------------------------------------------------- positions
Goto(t, label) == pc' = [pc EXCEPT ![t] = label]

Call(t, label, back) ==
    /\ pc' = [pc EXCEPT ![t] = label]
    /\ ret' = [ret EXCEPT ![t] = back]

Return(t) == pc' = [pc EXCEPT ![t] = ret[t]]

CloseLabels == {"c_stop", "c_test", "c_shutdown", "c_close", "c_finally"}

NoResult == [cause |-> "none", raised |-> FALSE, value |-> "None"]
NoTx == [sent |-> 0, data |-> <<>>, serializable |-> TRUE]

\* the frame _send writes for an object: json.dumps(obj) and the delimiter
FrameBytes(body) == <<body, NULL>>

\* ------------------------------------------------------------- streams
\* What the peer puts between two delimiters: two records, an undecodable
\* text, a JSON text that is no record, and nothing at all.
SegKinds == {<<"{", "p", "}">>, <<"{", "}">>, <<"x", "{">>, <<"1">>, <<>>}

\* Bytes after the last delimiter: none, or the start of a frame
Tails == {<<>>, <<"{", "p">>}

RECURSIVE Joined(_)
Joined(segs) == IF segs = <<>> THEN <<>> ELSE Head(segs) \o <<NULL>> \o Joined(Tail(segs))

Streams ==
    {Joined(segs) \o tail :
        segs \in UNION {[1..n -> SegKinds] : n \in 0..MaxSegs}, tail \in Tails}

\* -------------------------------------------------------------- state
\* no connection has been made by the reconnecting client
InitNoReconnect ==
    /\ client = [stop |-> FALSE, sock |-> 0, open |-> {}, connects |-> 0]
    /\ loops = <<>>

\* the watchdog has no component registered and is not checking
InitNoWatchdog ==
    /\ clock = 0
    /\ component = <<>>
    /\ checking = <<>>

\* no message is being classified, encoded or decoded
InitMsgIdle ==
    /\ rx_msg = <<>>
    /\ raw_hooks = [on_msg |-> TRUE, on_any_message |-> FALSE]
    /\ routed = <<>>
    /\ obj = <<>>
    /\ encoded = <<>>
    /\ decoded = <<>>

\* no recovery is being executed
NoRetry ==
    [pc |-> "idle", recovery |-> "log_continue", has_operation |-> FALSE,
     max_retries |-> 0, attempt |-> 0, invoked |-> 0, results |-> <<>>,
     slept_ms |-> 0, returned |-> "none"]

InitNoRetry == retry = NoRetry

InitNoMessage == InitMsgIdle /\ InitNoRetry /\ InitNoReconnect /\ InitNoWatchdog

InitClient ==
    /\ sock = "None"
    /\ sockState = "unopened"
    /\ stop = FALSE
    /\ rx_buf = <<>>
    /\ rpos = 0
    /\ extracted = <<>>
    /\ dispatched = <<>>
    /\ delivered = <<>>
    /\ hooked = <<>>
    /\ dropped = 0
    /\ rx_exc = "none"
    /\ lastRecv = "none"
    /\ pc = [t \in Threads |-> IF t = "app" THEN "init" ELSE "idle"]
    /\ ret = [t \in Threads |-> IF t = "app" THEN "ready" ELSE "done"]
    /\ tx = [t \in Threads |-> NoTx]
    /\ wire = <<>>
    /\ sendResult = [t \in Threads |-> NoResult]
    /\ beats = 0
    /\ appSends = 0
    /\ appCloses = 0
    /\ disconnects = 0
    /\ released = 0

InitObject == InitClient /\ InitNoMessage

InitNoDetect ==
    /\ account = [kind |-> "none", val |-> <<>>]
    /\ live_account = <<>>
    /\ mode = "unset"

\* ------------------------------------------------- router and debounce
\* Python's None and numbers share one domain here: None is the empty
\* tuple and the number n is <<n>>.
None == <<>>

Num(n) == <<n>>

Modes == {"LIVE", "SIM", "DEBUG"}

\* the symbols of the position messages tried; the first is the one the
\* phantom table names
Symbols == {"F.US.MESM25", "F.US.EPM25"}

\* Session State holds no open position for a symbol
NoPosition == [open |-> FALSE, qty |-> 0, avg |-> None, mode |-> "DEBUG"]

\* the trade logger holds no open entry for a symbol
NoEntry == [open |-> FALSE, qty |-> 0, entry_price |-> None, entry_time |-> 0]

\* the log the trade logger holds when it was told of every open position
TradeLogOf(positions) ==
    [s \in DOMAIN positions |->
        IF positions[s].open
        THEN [open |-> TRUE, qty |-> positions[s].qty, entry_price |-> positions[s].avg,
              entry_time |-> 0]
        ELSE NoEntry]

NoSwitch ==
    [called |-> FALSE, acct |-> <<>>, current_mode |-> "", qty |-> None,
     at |-> 0, before |-> <<>>, result |-> FALSE]

NoMsg ==
    [path |-> "none", kind |-> "none", TradeAccount |-> <<>>, symbol |-> "",
     qty |-> None, avg_entry |-> None, balance |-> None, held |-> FALSE,
     pending |-> FALSE, switched |-> FALSE, blocked |-> FALSE, raised |-> FALSE]

\* no collaborator raises, nothing is marshalled, no refresh is pending
InitUi ==
    /\ faulty = "none"
    /\ qt_pending = <<>>
    /\ qt_available = TRUE
    /\ ui_refresh_pending = FALSE
    /\ ui_timers = 0

\* trade_mode's module state before any call, the router as __init__ leaves
\* it, Session State as created at startup
InitRouter ==
    /\ now = 0
    /\ mode_candidates = <<>>
    /\ last_switch = NoSwitch
    /\ r_current_mode = "DEBUG"
    /\ r_current_account = <<>>
    /\ state_current_mode = "DEBUG"
    /\ state_positions = [s \in Symbols |-> NoPosition]
    /\ state_balances = [m \in Modes |-> 0]
    /\ state_current_account = <<>>
    /\ state_is_sim_mode = FALSE
    /\ open_positions = [s \in Symbols |-> NoEntry]
    /\ calls = <<>>
    /\ last_msg = NoMsg
    /\ events = 0
    /\ InitUi

\* ------------------------------------------------------------- connect
\* connect(), lines 227-245: create_connection succeeds and the logon
\* request is sent, or create_connection raises to the caller
Connect ==
    /\ pc["app"] = "init"
    /\ stop' = FALSE
    /\ \/ /\ sock' = "sock"
          /\ sockState' = "open"
          /\ tx' = [tx EXCEPT !["app"] =
                        [sent |-> 0, data |-> FrameBytes("l"), serializable |-> TRUE]]
          /\ Call("app", "s_test", "k_threads")
       \/ /\ Goto("app", "ready")
          /\ UNCHANGED <<sock, sockState, tx, ret>>
    /\ UNCHANGED <<rxVars, cfgVars, msgVars, modeVars, routerVars, disconnects, released, appCloses,
                   wire, sendResult, appSends, beats>>

\* connect(), lines 247-250: both threads are started
ConnectStartThreads ==
    /\ pc["app"] = "k_threads"
    /\ pc' = IF sendResult["app"].raised
             THEN [pc EXCEPT !["app"] = "ready"]
             ELSE [pc EXCEPT !["app"] = "ready", !["rx"] = "r_check", !["hb"] = "h_check"]
    /\ UNCHANGED <<rxVars, cfgVars, msgVars, modeVars, routerVars, txVars, sock, sockState, stop, ret,
                   disconnects, released, appCloses>>

\* ---------------------------------------------------------------- close
\* close(), line 253
CloseStop(t) ==
    /\ pc[t] = "c_stop"
    /\ stop' = TRUE
    /\ Goto(t, "c_test")
    /\ UNCHANGED <<rxVars, cfgVars, msgVars, modeVars, routerVars, txVars, sock, sockState, ret,
                   disconnects, released, appCloses>>

\* close(), line 255: if self.sock
CloseTest(t) ==
    /\ pc[t] = "c_test"
    /\ Goto(t, IF sock # "None" THEN "c_shutdown" ELSE "c_finally")
    /\ UNCHANGED <<rxVars, cfgVars, msgVars, modeVars, routerVars, txVars, sock, sockState, stop, ret,
                   disconnects, released, appCloses>>

\* close(), lines 256-257: self.sock.shutdown(SHUT_RDWR), exceptions suppressed
CloseShutdown(t) ==
    /\ pc[t] = "c_shutdown"
    /\ sockState' = IF sock # "None" /\ sockState = "open" THEN "shut" ELSE sockState
    /\ Goto(t, "c_close")
    /\ UNCHANGED <<rxVars, cfgVars, msgVars, modeVars, routerVars, txVars, sock, stop, ret,
                   disconnects, released, appCloses>>

\* close(), lines 258-259: self.sock.close(), exceptions suppressed; closing a
\* socket object that is closed already releases nothing
CloseClose(t) ==
    /\ pc[t] = "c_close"
    /\ IF sock # "None"
       THEN /\ sockState' = "closed"
            /\ released' = IF sockState # "closed" THEN released + 1 ELSE released
       ELSE UNCHANGED <<sockState, released>>
    /\ Goto(t, "c_finally")
    /\ UNCHANGED <<rxVars, cfgVars, msgVars, modeVars, routerVars, txVars, sock, stop, ret,
                   disconnects, appCloses>>

\* close(), lines 260-267: self.sock = None and on_disconnected()
CloseFinally(t) ==
    /\ pc[t] = "c_finally"
    /\ sock' = "None"
    /\ disconnects' = disconnects + 1
    /\ Return(t)
    /\ UNCHANGED <<rxVars, cfgVars, msgVars, modeVars, routerVars, txVars, sockState, stop, ret,
                   released, appCloses>>

\* ---------------------------------------------------------------- _send
\* a _send that lets the OSError of sendall through to its caller
send_report_reraise(cause) == [cause |-> cause, raised |-> cause = "oserror", value |-> "None"]

\* What _send's caller sees for each way the call can end (lines 277, 293,
\* 311-322 and the fall off the end): None is returned and nothing is raised
send_report(cause) == [cause |-> cause, raised |-> FALSE, value |-> "None"]

\* _send returns: its locals are gone, its caller has the report
Finish(t, cause) ==
    /\ sendResult' = [sendResult EXCEPT ![t] = send_report(cause)]
    /\ tx' = [tx EXCEPT ![t] = NoTx]
    /\ Return(t)

\* _send, lines 270-277: if not self.sock: return
SendTest(t) ==
    /\ pc[t] = "s_test"
    /\ IF sock = "None"
       THEN Finish(t, "no_socket")
       ELSE Goto(t, "s_dumps") /\ UNCHANGED <<sendResult, tx>>
    /\ UNCHANGED <<rxVars, cfgVars, msgVars, modeVars, routerVars, wire, appSends, beats, sock,
                   sockState, stop, ret, disconnects, released, appCloses>>

\* _send, lines 285-293: json.dumps(obj), TypeError and ValueError caught
SendDumps(t) ==
    /\ pc[t] = "s_dumps"
    /\ IF tx[t].serializable
       THEN Goto(t, "s_sendall") /\ UNCHANGED <<sendResult, tx>>
       ELSE Finish(t, "serialization")
    /\ UNCHANGED <<rxVars, cfgVars, msgVars, modeVars, routerVars, wire, appSends, beats, sock,
                   sockState, stop, ret, disconnects, released, appCloses>>

\* _send, line 309: self.sock is read for the sendall call; a None read there
\* raises AttributeError, which the except Exception clause (317-322) catches
SendAll(t) ==
    /\ pc[t] = "s_sendall"
    /\ IF sock = "None"
       THEN Finish(t, "unexpected")
       ELSE Goto(t, "s_write") /\ UNCHANGED <<sendResult, tx>>
    /\ UNCHANGED <<rxVars, cfgVars, msgVars, modeVars, routerVars, wire, appSends, beats, sock,
                   sockState, stop, ret, disconnects, released, appCloses>>

\* socket.sendall raises OSError (caught at 311-316): the socket was shut
\* down or closed, or the write times out or the peer reset the connection
SendWriteFail(t) ==
    /\ pc[t] = "s_write"
    /\ Finish(t, "oserror")
    /\ UNCHANGED <<rxVars, cfgVars, msgVars, modeVars, routerVars, wire, appSends, beats, sock,
                   sockState, stop, ret, disconnects, released, appCloses>>

\* socket.sendall writes the data by repeated send() calls, each taking at
\* least one byte; other threads run between two of them
SendWrite(t) ==
    /\ pc[t] = "s_write"
    /\ sockState = "open"
    /\ \E k \in 1..Len(tx[t].data) :
        LET rest == SubSeq(tx[t].data, k + 1, Len(tx[t].data))
            written == [j \in 1..k |-> [by |-> t, at |-> tx[t].sent + j, b |-> tx[t].data[j]]]
        IN  /\ wire' = LastOf(wire \o written, MaxWire)
            /\ IF rest = <<>>
               THEN Finish(t, "ok")
               ELSE /\ tx' = [tx EXCEPT ![t] = [sent |-> @.sent + k, data |-> rest,
                                                serializable |-> TRUE]]
                    /\ UNCHANGED <<pc, sendResult>>
    /\ UNCHANGED <<rxVars, cfgVars, msgVars, modeVars, routerVars, appSends, beats, sock,
                   sockState, stop, ret, disconnects, released, appCloses>>

\* ----------------------------------------------------------- application
\* the application calls _send (through one of the request methods)
AppSend ==
    /\ pc["app"] = "ready"
    /\ appSends < MaxSends
    /\ appSends' = appSends + 1
    /\ \E ser \in BOOLEAN :
        tx' = [tx EXCEPT !["app"] = [sent |-> 0, data |-> FrameBytes("a"), serializable |-> ser]]
    /\ Call("app", "s_test", "ready")
    /\ UNCHANGED <<rxVars, cfgVars, msgVars, modeVars, routerVars, wire, sendResult, beats, sock,
                   sockState, stop, disconnects, released, appCloses>>

\* the application calls close()
AppClose ==
    /\ pc["app"] = "ready"
    /\ appCloses < MaxCloses
    /\ appCloses' = appCloses + 1
    /\ Call("app", "c_stop", "ready")
    /\ UNCHANGED <<rxVars, cfgVars, msgVars, modeVars, routerVars, txVars, sock, sockState, stop,
                   disconnects, released>>

\* -------------------------------------------------------------- _hb_loop
\* where _hb_loop goes after its _send call: the except clause breaks,
\* otherwise time.sleep(4) and the loop test again (lines 381-385)
hb_after_send(r) == IF r.raised THEN "done" ELSE "h_check"

\* a heartbeat loop that never tests anything: while True
hb_loop_test_forever(s, k) == TRUE

\* the loop test of _hb_loop (line 380): not self._stop and self.sock
hb_loop_test(s, k) == ~s /\ k # "None"

\* _hb_loop, line 380 and the call of line 382.  The loop is stopped in its
\* sleep once MaxBeats heartbeats were begun, until the loop test fails.
HbCheck ==
    /\ pc["hb"] = "h_check"
    /\ IF hb_loop_test(stop, sock)
       THEN /\ beats < MaxBeats
            /\ beats' = beats + 1
            /\ tx' = [tx EXCEPT !["hb"] =
                        [sent |-> 0, data |-> FrameBytes("h"), serializable |-> TRUE]]
            /\ Call("hb", "s_test", "h_sent")
       ELSE /\ Goto("hb", "done")
            /\ UNCHANGED <<tx, ret, beats>>
    /\ UNCHANGED <<rxVars, cfgVars, msgVars, modeVars, routerVars, wire, sendResult, appSends,
                   sock, sockState, stop, disconnects, released, appCloses>>

\* _hb_loop, lines 383-385
HbSent ==
    /\ pc["hb"] = "h_sent"
    /\ Goto("hb", hb_after_send(sendResult["hb"]))
    /\ UNCHANGED <<rxVars, cfgVars, msgVars, modeVars, routerVars, txVars, sock, sockState, stop, ret,
                   disconnects, released, appCloses>>

\* -------------------------------------------------------------- _rx_loop
\* a decode failure that breaks out of the frame loop
after_decode_error_break == "r_check"

\* a read timeout that is treated like any other read failure
after_timeout_leave == "leave"

\* where the frame loop goes after a frame that fails to decode: continue
after_decode_error == "r_frames"

\* where _rx_loop goes when recv raises socket.timeout: continue (line 375)
after_timeout == "r_check"

\* leaving the loop, by break, by the loop test or by an exception, runs the
\* finally clause: self.close() (lines 376-377)
RxLeave == Call("rx", "c_stop", "done")

\* the loop test of _rx_loop (line 326): not self._stop and self.sock
rx_loop_test(s, k) == ~s /\ k # "None"

\* _rx_loop, line 326
RxCheck ==
    /\ pc["rx"] = "r_check"
    /\ IF rx_loop_test(stop, sock)
       THEN Goto("rx", "r_recv") /\ UNCHANGED ret
       ELSE RxLeave
    /\ UNCHANGED <<rxVars, cfgVars, msgVars, modeVars, routerVars, txVars, sock, sockState, stop,
                   disconnects, released, appCloses>>

\* line 328: self.sock is None when recv is to be called: AttributeError,
\* which no except clause of the loop catches
RxRecvNoSock ==
    /\ pc["rx"] = "r_recv"
    /\ sock = "None"
    /\ rx_exc' = "recv_on_None"
    /\ lastRecv' = "not_called"
    /\ RxLeave
    /\ UNCHANGED <<rx_buf, input, rpos, extracted, dispatched, delivered, hooked, dropped,
                   cfgVars, msgVars, modeVars, routerVars, txVars, sock, sockState, stop,
                   disconnects, released, appCloses>>

\* lines 328-331: recv returns a chunk, which is appended to the buffer
RxRecvData ==
    /\ pc["rx"] = "r_recv"
    /\ sockState = "open"
    /\ rpos < Len(input)
    /\ \E k \in 1..Min(MaxChunk, Len(input) - rpos) :
        /\ rx_buf' = Accumulate(rx_buf, SubSeq(input, rpos + 1, rpos + k))
        /\ rpos' = rpos + k
    /\ lastRecv' = "data"
    /\ Goto("rx", "r_frames")
    /\ UNCHANGED <<input, extracted, dispatched, delivered, hooked, dropped, rx_exc,
                   cfgVars, msgVars, modeVars, routerVars, txVars, sock, sockState, stop, ret,
                   disconnects, released, appCloses>>

\* lines 374-375: recv raises socket.timeout after the 1 s read timeout
RxRecvTimeout ==
    /\ pc["rx"] = "r_recv"
    /\ sockState = "open"
    /\ lastRecv' = "timeout"
    /\ IF after_timeout = "r_check"
       THEN Goto("rx", "r_check") /\ UNCHANGED ret
       ELSE RxLeave
    /\ UNCHANGED <<rx_buf, input, rpos, extracted, dispatched, delivered, hooked, dropped, rx_exc,
                   cfgVars, msgVars, modeVars, routerVars, txVars, sock, sockState, stop,
                   disconnects, released, appCloses>>

\* lines 329-330: recv returns b"": the peer closed the stream after its
\* last byte, or the socket was shut down by close()
RxRecvEof ==
    /\ pc["rx"] = "r_recv"
    /\ \/ sockState = "open" /\ rpos = Len(input)
       \/ sockState = "shut"
    /\ lastRecv' = "eof"
    /\ RxLeave
    /\ UNCHANGED <<rx_buf, input, rpos, extracted, dispatched, delivered, hooked, dropped, rx_exc,
                   cfgVars, msgVars, modeVars, routerVars, txVars, sock, sockState, stop,
                   disconnects, released, appCloses>>

\* line 328: recv raises an OSError that is no timeout (connection reset, or
\* the socket object was closed); only socket.timeout is caught
RxRecvError ==
    /\ pc["rx"] = "r_recv"
    /\ sockState \in {"open", "closed"}
    /\ lastRecv' = "error"
    /\ rx_exc' = "recv_OSError"
    /\ RxLeave
    /\ UNCHANGED <<rx_buf, input, rpos, extracted, dispatched, delivered, hooked, dropped,
                   cfgVars, msgVars, modeVars, routerVars, txVars, sock, sockState, stop,
                   disconnects, released, appCloses>>

\* lines 334-337: no delimiter in the buffer, back to the outer loop
RxNoFrame ==
    /\ pc["rx"] = "r_frames"
    /\ IndexOfNull(rx_buf) = 0
    /\ Goto("rx", "r_check")
    /\ UNCHANGED <<rxVars, cfgVars, msgVars, modeVars, routerVars, txVars, sock, sockState, stop, ret,
                   disconnects, released, appCloses>>

\* lines 338-341: an empty frame is skipped
RxEmptyFrame ==
    /\ pc["rx"] = "r_frames"
    /\ IndexOfNull(rx_buf) > 0
    /\ FrameAt(rx_buf, IndexOfNull(rx_buf)) = <<>>
    /\ extracted' = Append(extracted, FrameAt(rx_buf, IndexOfNull(rx_buf)))
    /\ rx_buf' = RestAfter(rx_buf, IndexOfNull(rx_buf))
    /\ UNCHANGED <<input, rpos, dispatched, delivered, hooked, dropped, rx_exc, lastRecv,
                   cfgVars, msgVars, modeVars, routerVars, txVars, connVars>>

\* lines 342-351: json.loads raises, the frame is dropped
RxDropFrame ==
    /\ pc["rx"] = "r_frames"
    /\ IndexOfNull(rx_buf) > 0
    /\ FrameAt(rx_buf, IndexOfNull(rx_buf)) # <<>>
    /\ ~json_loads(FrameAt(rx_buf, IndexOfNull(rx_buf))).ok
    /\ extracted' = Append(extracted, FrameAt(rx_buf, IndexOfNull(rx_buf)))
    /\ rx_buf' = RestAfter(rx_buf, IndexOfNull(rx_buf))
    /\ dropped' = dropped + 1
    /\ Goto("rx", after_decode_error)
    /\ UNCHANGED <<input, rpos, dispatched, delivered, hooked, rx_exc, lastRecv,
                   cfgVars, msgVars, modeVars, routerVars, txVars, sock, sockState, stop, ret,
                   disconnects, released, appCloses>>

\* lines 342-373: a decoded frame goes to _dispatch_for_panels and on_msg;
\* the consumer and the hook may each raise
RxDispatchFrame ==
    /\ pc["rx"] = "r_frames"
    /\ IndexOfNull(rx_buf) > 0
    /\ FrameAt(rx_buf, IndexOfNull(rx_buf)) # <<>>
    /\ json_loads(FrameAt(rx_buf, IndexOfNull(rx_buf))).ok
    /\ extracted' = Append(extracted, FrameAt(rx_buf, IndexOfNull(rx_buf)))
    /\ rx_buf' = RestAfter(rx_buf, IndexOfNull(rx_buf))
    /\ \E cbRaises \in BOOLEAN, hookRaises \in BOOLEAN :
        LET msg == json_loads(FrameAt(rx_buf, IndexOfNull(rx_buf)))
            h == handle_frame(msg, DEBUG_UI, DEBUG_CORE, cbRaises, hookRaises)
        IN  /\ dispatched' = Append(dispatched, msg)
            /\ delivered' = delivered \o h.calls
            /\ hooked' = IF h.hook THEN Append(hooked, msg) ELSE hooked
            /\ IF h.escaped
               THEN rx_exc' = "frame_handling" /\ RxLeave
               ELSE UNCHANGED <<rx_exc, pc, ret>>
    /\ UNCHANGED <<input, rpos, dropped, lastRecv,
                   cfgVars, msgVars, modeVars, routerVars, txVars, sock, sockState, stop,
                   disconnects, released, appCloses>>

\* ------------------------------------------------------- specifications
CloseStep(t) ==
    \/ CloseStop(t)
    \/ CloseTest(t)
    \/ CloseShutdown(t)
    \/ CloseClose(t)
    \/ CloseFinally(t)

SendStep(t) ==
    \/ SendTest(t)
    \/ SendDumps(t)
    \/ SendAll(t)
    \/ SendWriteFail(t)
    \/ SendWrite(t)

\* the steps of _rx_loop that need no byte from the peer
RxIdleStep ==
    \/ RxCheck
    \/ RxRecvTimeout
    \/ RxRecvEof
    \/ RxRecvError

\* the steps of _rx_loop that take bytes from the peer and frame them
RxDataStep ==
    \/ RxRecvData
    \/ RxNoFrame
    \/ RxEmptyFrame
    \/ RxDropFrame
    \/ RxDispatchFrame

HbStep == HbCheck \/ HbSent

\* Lifecycle and concurrency: the application, both loops, a silent peer
Init ==
    /\ InitObject
    /\ InitRouter
    /\ InitNoDetect
    /\ input = <<>>
    /\ DEBUG_UI = FALSE
    /\ DEBUG_CORE = FALSE

Next ==
    \/ Connect
    \/ ConnectStartThreads
    \/ AppSend
    \/ AppClose
    \/ RxIdleStep
    \/ RxRecvNoSock
    \/ HbStep
    \/ \E t \in {"app", "rx"} : CloseStep(t)
    \/ \E t \in {"app", "hb"} : SendStep(t)

Spec == Init /\ [][Next]_vars

\* Framing: the receive loop against every stream, under every setting of
\* the debug flags; the application only connects, and its logon is written
InitRx ==
    /\ InitObject
    /\ InitRouter
    /\ InitNoDetect
    /\ input \in Streams
    /\ DEBUG_UI \in BOOLEAN
    /\ DEBUG_CORE \in BOOLEAN

NextRx ==
    \/ Connect
    \/ ConnectStartThreads
    \/ SendTest("app")
    \/ SendDumps("app")
    \/ SendAll("app")
    \/ SendWrite("app")
    \/ RxIdleStep
    \/ RxDataStep
    \/ CloseStep("rx")

SpecRx == InitRx /\ [][NextRx]_vars

\* ------------------------------------------------------------ trade_mode
\* Strings are sequences of one-character strings.
Sim1 == <<"S", "i", "m", "1">>
Sim2 == <<"S", "i", "m", "2">>
Unknown123 == <<"U", "n", "k", "n", "o", "w", "n", "1", "2", "3">>
Acct120005 == <<"1", "2", "0", "0", "0", "5">>

AcctChars == {" ", "S", "i", "m", "1"}

Strings == UNION {[1..n -> AcctChars] : n \in 0..MaxAcctLen}

\* the arguments tried: strings, None, and an int
Accounts ==
    {[kind |-> "str", val |-> v] : v \in Strings \cup {Sim1, Sim2, Unknown123, Acct120005}}
        \cup {[kind |-> "none", val |-> <<>>], [kind |-> "int", val |-> <<>>]}

\* the values of config.settings.LIVE_ACCOUNT tried; <<>> is unset
LiveAccounts == {<<>>, Acct120005, <<"1">>, Sim1}

RECURSIVE LStrip(_)
LStrip(s) == IF s # <<>> /\ Head(s) = " " THEN LStrip(Tail(s)) ELSE s

RECURSIVE RStrip(_)
RStrip(s) == IF s # <<>> /\ s[Len(s)] = " " THEN RStrip(SubSeq(s, 1, Len(s) - 1)) ELSE s

\* str.strip()
Strip(s) == RStrip(LStrip(s))

\* str.startswith(prefix)
StartsWith(s, prefix) == Len(s) >= Len(prefix) /\ SubSeq(s, 1, Len(prefix)) = prefix

\* a detector that tests the "Sim" prefix before the LIVE account
detect_sim_first(acct, live) ==
    IF acct.kind # "str" \/ Strip(acct.val) = <<>>
    THEN "DEBUG"
    ELSE IF StartsWith(Strip(acct.val), <<"S", "i", "m">>)
    THEN "SIM"
    ELSE IF live # <<>> /\ Strip(acct.val) = live
    THEN "LIVE"
    ELSE "DEBUG"

\* detect_mode_from_account(account), with _get_live_account() = live
detect_mode_from_account(acct, live) ==
    IF acct.kind # "str" \/ acct.val = <<>>
    THEN "DEBUG"
    ELSE IF Strip(acct.val) = <<>>
    THEN "DEBUG"
    ELSE IF live # <<>> /\ Strip(acct.val) = live
    THEN "LIVE"
    ELSE IF StartsWith(Strip(acct.val), <<"S", "i", "m">>)
    THEN "SIM"
    ELSE "DEBUG"

\* a caller evaluates detect_mode_from_account(account)
Detect ==
    /\ mode = "unset"
    /\ mode' = detect_mode_from_account(account, live_account)
    /\ UNCHANGED <<rxVars, connVars, txVars, cfgVars, msgVars, routerVars, account, live_account>>

InitDetect ==
    /\ InitObject
    /\ InitRouter
    /\ input = <<>>
    /\ DEBUG_UI = FALSE
    /\ DEBUG_CORE = FALSE
    /\ account \in Accounts
    /\ live_account \in LiveAccounts
    /\ mode = "unset"

NextDetect == Detect

SpecDetect == InitDetect /\ [][NextDetect]_vars

\* ----------------------------------------------- trade_mode: debounce
Str(v) == [kind |-> "str", val |-> v]

\* a check that lets a flat position through
should_switch_mode_any_qty(acct, qty) ==
    acct.kind = "str" /\ Strip(acct.val) # <<>>

\* should_switch_mode(account, qty), require_active_position left True
should_switch_mode(acct, qty) ==
    IF acct.kind # "str" \/ acct.val = <<>>
    THEN FALSE
    ELSE IF Strip(acct.val) = <<>>
    THEN FALSE
    ELSE IF qty # None /\ qty = Num(0)
    THEN FALSE
    ELSE TRUE

\* _mode_candidates.append(e) on a deque(maxlen=10)
deque_append(q, e) ==
    IF Len(q) >= CANDIDATES_MAXLEN THEN Append(Tail(q), e) ELSE Append(q, e)

\* while _mode_candidates and _mode_candidates[0][0] < cutoff_ms: popleft()
RECURSIVE prune_front(_, _)
prune_front(q, cutoff_ms) ==
    IF q # <<>> /\ Head(q).ts < cutoff_ms
    THEN prune_front(Tail(q), cutoff_ms)
    ELSE q

\* all(c[1] == new_mode and c[2] == account for c in recent_candidates)
recent_agree(q, new_mode, acct) ==
    \A i \in (Len(q) - REQUIRED_CONSECUTIVE + 1)..Len(q) :
        q[i].mode = new_mode /\ q[i].account = acct

\* a debounce that never prunes its queue
debounced_without_pruning(q, now_ms, acct, current_mode, qty) ==
    LET new_mode == detect_mode_from_account(acct, live_account)
        q1 == deque_append(q, [ts |-> now_ms, mode |-> new_mode, account |-> acct])
    IN  IF ~should_switch_mode(acct, qty)
        THEN [result |-> FALSE, queue |-> q]
        ELSE IF current_mode # "" /\ new_mode = current_mode
        THEN [result |-> FALSE, queue |-> q]
        ELSE IF Len(q1) >= REQUIRED_CONSECUTIVE /\ recent_agree(q1, new_mode, acct)
        THEN [result |-> TRUE, queue |-> <<>>]
        ELSE [result |-> FALSE, queue |-> q1]

\* a debounce that empties its queue whenever the latest two disagree
debounced_clearing_on_false(q, now_ms, acct, current_mode, qty) ==
    LET new_mode == detect_mode_from_account(acct, live_account)
        q1 == deque_append(q, [ts |-> now_ms, mode |-> new_mode, account |-> acct])
        q2 == prune_front(q1, now_ms - DEBOUNCE_WINDOW_MS)
    IN  IF ~should_switch_mode(acct, qty)
        THEN [result |-> FALSE, queue |-> q]
        ELSE IF current_mode # "" /\ new_mode = current_mode
        THEN [result |-> FALSE, queue |-> q]
        ELSE IF Len(q2) >= REQUIRED_CONSECUTIVE
        THEN [result |-> recent_agree(q2, new_mode, acct), queue |-> <<>>]
        ELSE [result |-> FALSE, queue |-> q2]

\* should_switch_mode_debounced(account, current_mode, qty), called when
\* time.time() * 1000 reads now_ms and _mode_candidates is q; the result and
\* the queue it leaves
should_switch_mode_debounced(q, now_ms, acct, current_mode, qty) ==
    LET new_mode == detect_mode_from_account(acct, live_account)
        q1 == deque_append(q, [ts |-> now_ms, mode |-> new_mode, account |-> acct])
        q2 == prune_front(q1, now_ms - DEBOUNCE_WINDOW_MS)
    IN  IF ~should_switch_mode(acct, qty)
        THEN [result |-> FALSE, queue |-> q]
        ELSE IF current_mode # "" /\ new_mode = current_mode
        THEN [result |-> FALSE, queue |-> q]
        ELSE IF Len(q2) >= REQUIRED_CONSECUTIVE /\ recent_agree(q2, new_mode, acct)
        THEN [result |-> TRUE, queue |-> <<>>]
        ELSE [result |-> FALSE, queue |-> q2]

\* the record of one call
SwitchCall(q, now_ms, acct, current_mode, qty) ==
    [called |-> TRUE, acct |-> acct, current_mode |-> current_mode, qty |-> qty,
     at |-> now_ms, before |-> q,
     result |-> should_switch_mode_debounced(q, now_ms, acct, current_mode, qty).result]

\* the time between two messages, in ms: none, just inside the window, the
\* window itself, just outside it.  The clock is read as non-decreasing.
Delays == {0, DEBOUNCE_WINDOW_MS - 1, DEBOUNCE_WINDOW_MS, DEBOUNCE_WINDOW_MS + 1}

\* the accounts of the messages tried: none, the LIVE one, two SIM ones, an
\* unknown one
RouterAccounts == {<<>>, Acct120005, Sim1, Sim2, Unknown123}

\* the qty arguments tried: an order's (None), a flat and an open position's
CallQtys == {None, Num(0), Num(1)}

\* a caller evaluates should_switch_mode_debounced(account, current_mode, qty)
ShouldSwitch ==
    /\ events < MaxCalls
    /\ \E d \in Delays, a \in RouterAccounts \ {Unknown123}, cm \in Modes, qty \in CallQtys :
        LET r == should_switch_mode_debounced(mode_candidates, now + d, Str(a), cm, qty)
        IN  /\ now' = now + d
            /\ mode_candidates' = r.queue
            /\ last_switch' = SwitchCall(mode_candidates, now + d, Str(a), cm, qty)
    /\ events' = events + 1
    /\ UNCHANGED <<rxVars, connVars, txVars, cfgVars, msgVars, modeVars, sessionVars,
                   r_current_mode, r_current_account, calls, last_msg,
                   faulty, qt_pending, uiVars>>

InitDebounce ==
    /\ InitObject
    /\ InitRouter
    /\ input = <<>>
    /\ DEBUG_UI = FALSE
    /\ DEBUG_CORE = FALSE
    /\ account = [kind |-> "none", val |-> <<>>]
    /\ live_account \in {<<>>, Acct120005}
    /\ mode = "unset"

NextDebounce == ShouldSwitch

SpecDebounce == InitDebounce /\ [][NextDebounce]_vars

\* ------------------------------------------- trade_mode: eligibility
\* the qty arguments of the eligibility check: an order's (None), a flat, a
\* long and a short position's
EligibilityQtys == {None, Num(0), Num(2), Num(-1)}

\* a caller evaluates should_switch_mode(account, qty)
SwitchCheck ==
    /\ ~last_switch.called
    /\ \E qty \in EligibilityQtys :
        last_switch' = [called |-> TRUE, acct |-> account, current_mode |-> "",
                        qty |-> qty, at |-> now, before |-> <<>>,
                        result |-> should_switch_mode(account, qty)]
    /\ UNCHANGED <<rxVars, connVars, txVars, cfgVars, msgVars, modeVars, sessionVars,
                   now, mode_candidates, r_current_mode, r_current_account, calls,
                   last_msg, events, faulty, qt_pending, uiVars>>

InitEligible == InitDetect

NextEligible == SwitchCheck

SpecEligible == InitEligible /\ [][NextEligible]_vars

\* --------------------------------------------------- Session State
\* precedence LIVE > SIM > DEBUG
Precedence(m) == CASE m = "LIVE" -> 3 [] m = "SIM" -> 2 [] OTHER -> 1

\* StateManager.is_mode_blocked(requested_mode): an open position is held
\* under a mode of strictly higher precedence
is_mode_blocked(positions, requested_mode) ==
    \E sym \in Symbols :
        /\ positions[sym].open
        /\ Precedence(positions[sym].mode) > Precedence(requested_mode)

\* StateManager.update_position(symbol, qty, avg): quantity 0 clears the
\* symbol's entry, any other quantity records the position under the
\* current mode
update_position(positions, m, sym, qty, avg) ==
    IF qty = Num(0)
    THEN [positions EXCEPT ![sym] = NoPosition]
    ELSE [positions EXCEPT ![sym] =
            [open |-> TRUE, qty |-> qty[1], avg |-> avg, mode |-> m]]

\* StateManager.set_balance_for_mode(mode, balance)
set_balance_for_mode(balances, m, balance) == [balances EXCEPT ![m] = balance]

\* ------------------------------------------------------ MessageRouter
\* the router's own fields, the debounce queue and Session State, as one
\* value a handler reads and returns
RouterState ==
    [current_mode |-> r_current_mode, current_account |-> r_current_account,
     candidates |-> mode_candidates, state_mode |-> state_current_mode,
     positions |-> state_positions, balances |-> state_balances,
     state_account |-> state_current_account, is_sim_mode |-> state_is_sim_mode,
     trade_log |-> open_positions, utcnow |-> events,
     faulty |-> faulty, qt_pending |-> qt_pending]

\* one call to a collaborator
Invoke(to, op) ==
    [to |-> to, op |-> op, mode |-> "", account |-> <<>>, raised |-> FALSE]

\* the call as it ends: it raises when its receiver is the faulty collaborator
Attempt(S, c) == IF c.to = S.faulty THEN [c EXCEPT !.raised = TRUE] ELSE c

\* calls each made under its own guard (its own try, contextlib.suppress,
\* or its own marshalled slot on the Qt thread): every one is made
Each(S, cs) == [i \in 1..Len(cs) |-> Attempt(S, cs[i])]

\* calls made one after the other with nothing caught between them: the
\* first that raises ends the run
Until(S, cs) ==
    LET bad == {i \in 1..Len(cs) : cs[i].to = S.faulty}
    IN  IF bad = {}
        THEN cs
        ELSE Each(S, SubSeq(cs, 1, CHOOSE i \in bad : \A j \in bad : i <= j))

AnyRaised(cs) == \E i \in 1..Len(cs) : cs[i].raised

\* marshal_to_qt_thread(panel.set_trading_mode, detected_mode, account)
SetTradingMode(to, m, acct) ==
    [to |-> to, op |-> "set_trading_mode", mode |-> m, account |-> acct,
     raised |-> FALSE]

Panels == <<"panel_balance", "panel_live", "panel_stats">>

\* what a handler leaves behind
Outcome(S, issued, sw, switched, blocked, raised) ==
    [S |-> S, calls |-> issued, switch |-> sw, switched |-> switched,
     blocked |-> blocked, raised |-> raised]

\* PHANTOM_POSITIONS; prices are in tenths of a point (5996.5 is 59965)
PHANTOM_POSITIONS == [sym \in {"F.US.MESM25"} |-> [qty |-> 1, avg |-> 59965]]

\* _check_mode_precedence(requested_mode), self.state present
check_mode_precedence(S, requested_mode) ==
    IF requested_mode = "LIVE"
    THEN TRUE
    ELSE ~is_mode_blocked(S.positions, requested_mode)

\* lines 204-232 and 290-318, the same in both signal handlers: the
\* debounced check, the precedence gate, the broadcast to the three panels
\* and the update of the router's mode and account.  m is the message, qty
\* the quantity handed to the debounce (None for an order), now_ms the clock
mode_evaluation(S, m, qty, now_ms) ==
    LET acct == m.TradeAccount
        d == should_switch_mode_debounced(S.candidates, now_ms, Str(acct),
                                          S.current_mode, qty)
        sw == SwitchCall(S.candidates, now_ms, Str(acct), S.current_mode, qty)
        detected_mode == detect_mode_from_account(Str(acct), live_account)
        S1 == [S EXCEPT !.candidates = d.queue]
    IN  IF acct = <<>>
        THEN Outcome(S, <<>>, NoSwitch, FALSE, FALSE, FALSE)
        ELSE IF ~d.result
        THEN Outcome(S1, <<>>, sw, FALSE, FALSE, FALSE)
        ELSE IF ~check_mode_precedence(S, detected_mode)
        THEN Outcome(S1, <<>>, sw, FALSE, TRUE, FALSE)
        ELSE Outcome([S1 EXCEPT !.current_mode = detected_mode,
                                !.current_account = acct],
                     Each(S, [i \in 1..Len(Panels) |->
                                SetTradingMode(Panels[i], detected_mode, acct)]),
                     sw, TRUE, FALSE, FALSE)

\* an order handler that goes on to route the order after the gate said no
on_order_signal_routing_blocked(S, m, now_ms) ==
    LET ev == mode_evaluation(S, m, None, now_ms)
    IN  [ev EXCEPT !.calls = @ \o <<Invoke("panel_live", "on_order_update")>>]

\* _on_order_signal(sender): mode evaluation, then the order is marshalled
\* to panel_live.on_order_update unless the gate blocked the switch
on_order_signal(S, m, now_ms) ==
    LET ev == mode_evaluation(S, m, None, now_ms)
    IN  IF ev.blocked
        THEN ev
        ELSE [ev EXCEPT !.calls =
                @ \o Each(ev.S, <<Invoke("panel_live", "on_order_update")>>)]

\* _on_position_signal(sender): mode evaluation for a non-zero quantity
\* only, then the position is marshalled to panel_live.on_position_update
on_position_signal(S, m, now_ms) ==
    LET ev == IF m.qty # Num(0)
              THEN mode_evaluation(S, m, m.qty, now_ms)
              ELSE Outcome(S, <<>>, NoSwitch, FALSE, FALSE, FALSE)
    IN  IF ev.blocked
        THEN ev
        ELSE [ev EXCEPT !.calls =
                @ \o Each(ev.S, <<Invoke("panel_live", "on_position_update")>>)]

\* the render pair of _update_balance_ui and _on_balance_update, for a
\* balance of mode bmode ("" when the update names no account)
BalanceRender(bmode) ==
    <<[Invoke("panel_balance", "set_account_balance") EXCEPT !.mode = bmode],
      [Invoke("panel_balance", "update_equity_series_from_balance") EXCEPT !.mode = bmode]>>

\* a balance UI update that renders whatever it is handed
update_balance_ui_unchecked(S, balance_value, bmode) ==
    Until(S, BalanceRender(bmode))

\* _update_balance_ui(balance_value, mode), run on the Qt thread: the calls
\* it makes to panel_balance
update_balance_ui(S, balance_value, bmode) ==
    IF bmode # "" /\ bmode # S.state_mode
    THEN <<>>
    ELSE Until(S, BalanceRender(bmode))

\* a balance handler that takes the balance's account as the current one
on_balance_signal_switching(S, m) ==
    LET balance_value == IF m.balance = Num(0) THEN None ELSE m.balance
        acct == m.TradeAccount
        bmode == IF acct # <<>>
                 THEN detect_mode_from_account(Str(acct), live_account)
                 ELSE "SIM"
        store == Attempt(S, [Invoke("state", "set_balance_for_mode") EXCEPT !.mode = bmode])
        S1 == IF store.raised
              THEN S
              ELSE [S EXCEPT !.balances = set_balance_for_mode(@, bmode, balance_value[1])]
    IN  IF balance_value = None
        THEN Outcome(S, <<>>, NoSwitch, FALSE, FALSE, FALSE)
        ELSE IF bmode = "SIM"
        THEN Outcome(S, <<>>, NoSwitch, FALSE, FALSE, FALSE)
        ELSE Outcome([S1 EXCEPT !.current_mode = bmode, !.current_account = acct,
                                !.qt_pending =
                                    Append(@, [balance |-> balance_value, mode |-> bmode])],
                     <<store>>, NoSwitch, FALSE, FALSE, FALSE)

\* _on_balance_signal(sender): a zero or missing balance and a balance of
\* mode SIM end the handler; otherwise the balance is stored under its mode
\* and, when that mode is the current one, _update_balance_ui is marshalled
\* to the Qt thread
on_balance_signal(S, m) ==
    LET balance_value == IF m.balance = Num(0) THEN None ELSE m.balance
        acct == m.TradeAccount
        bmode == IF acct # <<>>
                 THEN detect_mode_from_account(Str(acct), live_account)
                 ELSE "SIM"
        store == Attempt(S, [Invoke("state", "set_balance_for_mode") EXCEPT !.mode = bmode])
        S1 == IF store.raised
              THEN S
              ELSE [S EXCEPT !.balances = set_balance_for_mode(@, bmode, balance_value[1])]
        S2 == IF bmode = S.state_mode
              THEN [S1 EXCEPT !.qt_pending =
                      Append(@, [balance |-> balance_value, mode |-> bmode])]
              ELSE S1
    IN  IF balance_value = None
        THEN Outcome(S, <<>>, NoSwitch, FALSE, FALSE, FALSE)
        ELSE IF bmode = "SIM"
        THEN Outcome(S, <<>>, NoSwitch, FALSE, FALSE, FALSE)
        ELSE Outcome(S2, <<store>>, NoSwitch, FALSE, FALSE, FALSE)

\* an order handler that detects the order's mode and leaves Session
\* State's mode as it was
on_order_update_keeping_mode(S, m) ==
    Outcome(S, <<Invoke("panel_live", "on_order_update"),
                 Invoke("panel_stats", "register_order_event"),
                 Invoke("state", "record_order")>>,
            NoSwitch, FALSE, FALSE, FALSE)

\* _on_order_update(payload), reached through route(): the emit, the two
\* panel calls each under its own guard, then state.record_order unguarded
on_order_update(S, m) ==
    LET acct == m.TradeAccount
        order_mode == detect_mode_from_account(Str(acct), live_account)
        changes == acct # <<>> /\ order_mode # S.state_mode
        deliver == Each(S, <<Invoke("panel_live", "on_order_update"),
                             Invoke("panel_stats", "register_order_event"),
                             Invoke("state", "record_order")>>)
        emit == Each(S, <<[Invoke("state", "modeChanged.emit") EXCEPT !.mode = order_mode]>>)
    IN  IF changes
        THEN Outcome([S EXCEPT !.state_mode = order_mode], emit \o deliver,
                     NoSwitch, TRUE, FALSE, S.faulty = "state")
        ELSE Outcome(S, deliver, NoSwitch, FALSE, FALSE, S.faulty = "state")

\* TradeManager.on_position_update(payload) on the log it keeps: an open
\* when the symbol has no entry, a close when the quantity is 0, else a
\* change of the entry's quantity; utcnow is datetime.utcnow()
trade_manager_on_position_update(log, m, utcnow) ==
    LET current_pos == log[m.symbol]
        qty == IF m.qty = None THEN 0 ELSE m.qty[1]
    IN  IF m.symbol \notin Symbols
        THEN log
        ELSE IF qty > 0 /\ (~current_pos.open \/ current_pos.qty = 0)
        THEN [log EXCEPT ![m.symbol] =
                [open |-> TRUE, qty |-> qty, entry_price |-> m.avg_entry,
                 entry_time |-> utcnow]]
        ELSE IF qty = 0 /\ current_pos.open /\ current_pos.qty > 0
        THEN [log EXCEPT ![m.symbol] = NoEntry]
        ELSE IF qty > 0 /\ current_pos.open /\ qty # current_pos.qty
        THEN [log EXCEPT ![m.symbol].qty = qty]
        ELSE log

\* a position handler whose close branch returns without touching the map
on_position_update_keeping_entry(S, m) ==
    LET phantom == /\ m.symbol \in DOMAIN PHANTOM_POSITIONS
                   /\ m.qty = Num(PHANTOM_POSITIONS[m.symbol].qty)
                   /\ m.avg_entry = Num(PHANTOM_POSITIONS[m.symbol].avg)
    IN  IF m.qty = Num(0) \/ m.avg_entry = None \/ m.avg_entry = Num(0) \/ phantom
        THEN Outcome(S, <<>>, NoSwitch, FALSE, FALSE, FALSE)
        ELSE Outcome([S EXCEPT !.positions =
                        update_position(@, S.state_mode, m.symbol, m.qty, m.avg_entry)],
                     <<Invoke("panel_live", "on_position_update"),
                       Invoke("trade_manager", "on_position_update")>>,
                     NoSwitch, FALSE, FALSE, FALSE)

\* _on_position_update(payload), reached through route(): panel_live and
\* the trade manager each under its own guard, state.update_position
\* unguarded in both branches
on_position_update(S, m) ==
    LET phantom == /\ m.symbol \in DOMAIN PHANTOM_POSITIONS
                   /\ m.qty = Num(PHANTOM_POSITIONS[m.symbol].qty)
                   /\ m.avg_entry = Num(PHANTOM_POSITIONS[m.symbol].avg)
        store == Attempt(S, Invoke("state", "update_position"))
        closed == IF store.raised
                  THEN S
                  ELSE [S EXCEPT !.positions =
                          update_position(@, S.state_mode, m.symbol, Num(0), None)]
        logged == IF S.faulty = "trade_manager"
                  THEN S
                  ELSE [S EXCEPT !.trade_log =
                          trade_manager_on_position_update(@, m, S.utcnow + 1)]
        opened == IF store.raised
                  THEN logged
                  ELSE [logged EXCEPT !.positions =
                          update_position(@, S.state_mode, m.symbol, m.qty, m.avg_entry)]
    IN  IF m.qty = Num(0)
        THEN Outcome(closed, <<store>>, NoSwitch, FALSE, FALSE, store.raised)
        ELSE IF m.avg_entry = None \/ m.avg_entry = Num(0)
        THEN Outcome(S, <<>>, NoSwitch, FALSE, FALSE, FALSE)
        ELSE IF phantom
        THEN Outcome(S, <<>>, NoSwitch, FALSE, FALSE, FALSE)
        ELSE Outcome(opened,
                     Each(S, <<Invoke("panel_live", "on_position_update"),
                               Invoke("trade_manager", "on_position_update")>>)
                        \o <<store>>,
                     NoSwitch, FALSE, FALSE, store.raised)

\* a balance handler that files the balance under the current mode
on_balance_update_under_current(S, m) ==
    LET bal == m.balance
        acct == m.TradeAccount
        stored == <<Invoke("state", "update_balance")>>
        shown == <<Invoke("panel_balance", "set_account_balance"),
                   Invoke("panel_balance", "update_equity_series_from_balance")>>
    IN  IF acct # <<>> /\ bal = None
        THEN Outcome(S, stored, NoSwitch, FALSE, FALSE, TRUE)
        ELSE IF acct # <<>>
        THEN Outcome([S EXCEPT !.balances = set_balance_for_mode(@, S.state_mode, bal[1])],
                     stored \o shown, NoSwitch, FALSE, FALSE, FALSE)
        ELSE Outcome(S, stored \o shown, NoSwitch, FALSE, FALSE, FALSE)

\* _on_balance_update(payload), reached through route(): the two calls to
\* state are unguarded and come first, float(None) raises TypeError, the
\* render pair shares one try; what leaves the handler route() catches
on_balance_update(S, m) ==
    LET bal == m.balance
        acct == m.TradeAccount
        bmode == IF acct # <<>>
                 THEN detect_mode_from_account(Str(acct), live_account)
                 ELSE ""
        stored == Until(S, <<Invoke("state", "update_balance")>>)
        shown == Until(S, BalanceRender(bmode))
        S1 == [S EXCEPT !.balances = set_balance_for_mode(@, bmode, bal[1])]
    IN  IF AnyRaised(stored)
        THEN Outcome(S, stored, NoSwitch, FALSE, FALSE, TRUE)
        ELSE IF bmode # "" /\ bal = None
        THEN Outcome(S, stored, NoSwitch, FALSE, FALSE, TRUE)
        ELSE IF bmode # "" /\ bmode # S.state_mode
        THEN Outcome(S1, stored, NoSwitch, FALSE, FALSE, FALSE)
        ELSE IF bmode # ""
        THEN Outcome(S1, stored \o shown, NoSwitch, FALSE, FALSE, FALSE)
        ELSE Outcome(S, stored \o shown, NoSwitch, FALSE, FALSE, FALSE)

\* ------------------------------------------------------------ messages
Msg(acct, sym, qty, avg, bal) ==
    [TradeAccount |-> acct, symbol |-> sym, qty |-> qty, avg_entry |-> avg,
     balance |-> bal]

\* the position payloads tried, as (symbol, qty, avg_entry): a close with
\* and without a price, a missing and a zero price, the phantom entry, the
\* phantom symbol at another quantity, another symbol at the phantom's
\* quantity and price, and that symbol's close
PositionPayloads ==
    {<<"F.US.MESM25", Num(0), None>>, <<"F.US.MESM25", Num(0), Num(59965)>>,
     <<"F.US.MESM25", Num(1), None>>, <<"F.US.MESM25", Num(2), Num(0)>>,
     <<"F.US.MESM25", Num(1), Num(59965)>>, <<"F.US.MESM25", Num(2), Num(59965)>>,
     <<"F.US.EPM25", Num(1), Num(59965)>>, <<"F.US.EPM25", Num(0), None>>}

\* the balances tried: missing, zero, an amount
BalanceValues == {None, Num(0), Num(100)}

PositionAccounts == {Acct120005, Sim1}

OrderMsgs == {Msg(a, "", None, None, None) : a \in RouterAccounts}

PositionMsgs ==
    {Msg(a, pp[1], pp[2], pp[3], None) : a \in PositionAccounts, pp \in PositionPayloads}

BalanceMsgs ==
    {Msg(a, "", None, None, b) : a \in PositionAccounts \cup {<<>>}, b \in BalanceValues}

\* the time between two signals, in ms: none, or more than the window
RouterDelays == {0, DEBOUNCE_WINDOW_MS + 1}

\* one handler ran to its end on message m with outcome r, the clock at now_ms
Handled(path, kind, m, r, now_ms) ==
    /\ events < MaxEvents
    /\ events' = events + 1
    /\ now' = now_ms
    /\ mode_candidates' = r.S.candidates
    /\ last_switch' = IF r.switch.called THEN r.switch ELSE last_switch
    /\ r_current_mode' = r.S.current_mode
    /\ r_current_account' = r.S.current_account
    /\ state_current_mode' = r.S.state_mode
    /\ state_positions' = r.S.positions
    /\ state_balances' = r.S.balances
    /\ state_current_account' = r.S.state_account
    /\ state_is_sim_mode' = r.S.is_sim_mode
    /\ open_positions' = r.S.trade_log
    /\ calls' = r.calls
    /\ last_msg' = [path |-> path, kind |-> kind, TradeAccount |-> m.TradeAccount,
                    symbol |-> m.symbol, qty |-> m.qty, avg_entry |-> m.avg_entry,
                    balance |-> m.balance,
                    held |-> m.symbol \in Symbols /\ state_positions[m.symbol].open,
                    pending |-> ui_refresh_pending,
                    switched |-> r.switched,
                    blocked |-> r.blocked, raised |-> r.raised]
    /\ qt_pending' = r.S.qt_pending
    /\ UNCHANGED <<rxVars, connVars, txVars, cfgVars, msgVars, modeVars, faulty, uiVars>>

\* signal_order fires: _on_order_signal
OrderSignal ==
    \E m \in OrderMsgs, d \in RouterDelays :
        Handled("signal", "order", m, on_order_signal(RouterState, m, now + d), now + d)

\* signal_position fires: _on_position_signal
PositionSignal ==
    \E m \in PositionMsgs, d \in RouterDelays :
        Handled("signal", "position", m, on_position_signal(RouterState, m, now + d), now + d)

\* signal_balance fires: _on_balance_signal
BalanceSignal ==
    \E m \in BalanceMsgs :
        Handled("signal", "balance", m, on_balance_signal(RouterState, m), now)

\* route({"type": "ORDER_UPDATE", "payload": m})
RouteOrder ==
    \E m \in OrderMsgs :
        Handled("route", "order", m, on_order_update(RouterState, m), now)

\* route({"type": "POSITION_UPDATE", "payload": m})
RoutePosition ==
    \E m \in PositionMsgs :
        Handled("route", "position", m, on_position_update(RouterState, m), now)

\* route({"type": "BALANCE_UPDATE", "payload": m})
RouteBalance ==
    \E m \in BalanceMsgs :
        Handled("route", "balance", m, on_balance_update(RouterState, m), now)

\* the Qt thread runs the oldest marshalled _update_balance_ui
RunBalanceUi ==
    /\ qt_pending # <<>>
    /\ LET u == Head(qt_pending)
       IN  /\ calls' = update_balance_ui(RouterState, u.balance, u.mode)
           /\ last_msg' = [NoMsg EXCEPT !.path = "qt", !.kind = "balance_ui",
                                        !.balance = u.balance]
    /\ qt_pending' = Tail(qt_pending)
    /\ UNCHANGED <<rxVars, connVars, txVars, cfgVars, msgVars, modeVars, debounceVars,
                   sessionVars, r_current_mode, r_current_account, events,
                   faulty, uiVars>>

\* the (mode, account) pairs the router can hold
CurrentPairs == {<<"DEBUG", <<>>>>, <<"LIVE", Acct120005>>, <<"SIM", Sim1>>}

\* the open-position maps a run starts from: empty, or one position open
\* under some mode
OpenPositionMaps ==
    {[s \in Symbols |-> NoPosition]} \cup
    {[[s \in Symbols |-> NoPosition] EXCEPT !["F.US.EPM25"] =
        [open |-> TRUE, qty |-> 1, avg |-> Num(60000), mode |-> m]] : m \in Modes}

\* a router some way into its run: a committed (mode, account), a Session
\* State mode set by earlier orders, positions recorded by earlier position
\* updates, no candidate left in the window
InitRouterStart ==
    /\ InitObject
    /\ input = <<>>
    /\ DEBUG_UI = FALSE
    /\ DEBUG_CORE = FALSE
    /\ account = [kind |-> "none", val |-> <<>>]
    /\ live_account = Acct120005
    /\ mode = "unset"
    /\ now = 0
    /\ mode_candidates = <<>>
    /\ last_switch = NoSwitch
    /\ \E cp \in CurrentPairs : r_current_mode = cp[1] /\ r_current_account = cp[2]
    /\ state_current_mode \in Modes
    /\ state_positions \in OpenPositionMaps
    /\ state_balances = [m \in Modes |-> 0]
    /\ state_current_account = <<>>
    /\ state_is_sim_mode = FALSE
    /\ open_positions = TradeLogOf(state_positions)
    /\ calls = <<>>
    /\ last_msg = NoMsg
    /\ events = 0

\* a router some way into its run whose collaborators do not raise
InitRouterSpec == InitRouterStart /\ InitUi

\* orders and positions, by signal and through route()
NextRouter == OrderSignal \/ PositionSignal \/ RouteOrder \/ RoutePosition

SpecRouter == InitRouterSpec /\ [][NextRouter]_vars

\* balances, by signal and through route()
NextBalance == BalanceSignal \/ RouteBalance \/ RunBalanceUi

SpecBalance == InitRouterSpec /\ [][NextBalance]_vars

\* balances between mode changes: an order through route() sets Session
\* State's current mode
NextBalanceModes == BalanceSignal \/ RouteBalance \/ RouteOrder \/ RunBalanceUi

SpecBalanceModes == InitRouterSpec /\ [][NextBalanceModes]_vars

\* ---------------------------------------------- collaborators that raise
\* the collaborators a handler notifies
Collaborators == {"panel_balance", "panel_live", "panel_stats", "state", "trade_manager"}

InitFaulty ==
    /\ InitRouterStart
    /\ faulty \in Collaborators
    /\ qt_pending = <<>>
    /\ qt_available = TRUE
    /\ ui_refresh_pending = FALSE
    /\ ui_timers = 0

\* every handler, with one collaborator raising from each of its methods
NextFaulty ==
    \/ OrderSignal \/ PositionSignal \/ BalanceSignal
    \/ RouteOrder \/ RoutePosition \/ RouteBalance
    \/ RunBalanceUi

SpecFaulty == InitFaulty /\ [][NextFaulty]_vars

\* ------------------------------------------ MessageRouter: trade account
\* str.lower() over the letters of the accounts tried
Lower(s) ==
    [i \in 1..Len(s) |-> CASE s[i] = "S" -> "s" [] s[i] = "U" -> "u" [] OTHER -> s[i]]

\* _on_trade_account(payload), m.TradeAccount standing for
\* payload.get("account"): trade_manager.set_account unguarded,
\* panel_balance.set_account suppressed, then Session State's
\* current_account and is_sim_mode; current_mode is not assigned
on_trade_account(S, m) ==
    LET acct == m.TradeAccount
        logged == Until(S, <<[Invoke("trade_manager", "set_account") EXCEPT !.account = acct]>>)
        shown == Each(S, <<[Invoke("panel_balance", "set_account") EXCEPT !.account = acct]>>)
    IN  IF AnyRaised(logged)
        THEN Outcome(S, logged, NoSwitch, FALSE, FALSE, TRUE)
        ELSE Outcome([S EXCEPT !.state_account = acct,
                               !.is_sim_mode = acct # <<>> /\ StartsWith(Lower(acct), <<"s", "i", "m">>)],
                     logged \o shown, NoSwitch, FALSE, FALSE, FALSE)

\* route({"type": "TRADE_ACCOUNT", "payload": m})
RouteTradeAccount ==
    \E m \in OrderMsgs :
        Handled("route", "trade_account", m, on_trade_account(RouterState, m), now)

\* signal_trade_account fires: _on_trade_account_signal hands the message
\* to _on_trade_account
TradeAccountSignal ==
    \E m \in OrderMsgs :
        Handled("signal", "trade_account", m, on_trade_account(RouterState, m), now)

\* a router whose own mode and Session State's agree, no trade account
\* received yet
InitSession ==
    /\ InitRouterSpec
    /\ state_current_mode = r_current_mode

NextSession ==
    \/ OrderSignal \/ PositionSignal
    \/ RouteOrder \/ RoutePosition
    \/ RouteTradeAccount \/ TradeAccountSignal

SpecSession == InitSession /\ [][NextSession]_vars

\* every handler of the router, no collaborator raising
NextHandlers == NextFaulty \/ RouteTradeAccount \/ TradeAccountSignal

SpecHandlers == InitRouterSpec /\ [][NextHandlers]_vars

\* ------------------------------------------------- ErrorHandler: retry
\* the recovery actions a policy can name; the last is one the handler
\* does not know
Recoveries ==
    {"auto_retry", "cancel_retry", "log_continue", "skip_message", "abort", "other"}

\* what one call of operation() can do: return something truthy, None,
\* something falsy, or raise an Exception
OperationResults == {"truthy", "None", "falsy", "raises"}

\* policy.backoff_ms, as the default policy has it
backoff_ms == 1000

\* an attempt that counts as success only when it returns something truthy
succeeded_truthy_only(result) == result = "truthy"

\* if result or result is None
succeeded(result) == result \in {"truthy", "None"}

RECURSIVE Pow2(_)
Pow2(n) == IF n = 0 THEN 1 ELSE 2 * Pow2(n - 1)

\* ErrorPolicy.get_backoff_delay(attempt), in ms
get_backoff_delay(policy, attempt) ==
    IF ~(policy.recovery \in {"auto_retry", "cancel_retry"} /\ policy.max_retries > 0)
    THEN 0
    ELSE backoff_ms * Pow2(attempt)

\* _execute_recovery(policy, operation, context) up to the call of
\* _retry_with_backoff; every other branch returns at once
ExecuteRecovery ==
    /\ retry.pc = "idle"
    /\ retry' =
        IF retry.recovery \in {"auto_retry", "cancel_retry"}
        THEN IF ~retry.has_operation
             THEN [retry EXCEPT !.pc = "done", !.returned = "false"]
             ELSE [retry EXCEPT !.pc = "loop", !.attempt = 0]
        ELSE IF retry.recovery \in {"log_continue", "continue"}
        THEN [retry EXCEPT !.pc = "done", !.returned = "true"]
        ELSE [retry EXCEPT !.pc = "done", !.returned = "false"]
    /\ UNCHANGED <<rxVars, connVars, txVars, cfgVars, modeVars, routerVars,
                   rx_msg, raw_hooks, routed, obj, encoded, decoded,
                   client, loops, clock, component, checking>>

\* one pass of the for loop of _retry_with_backoff: the sleep before every
\* attempt but the first, then operation() and the test of its result
RetryAttempt ==
    /\ retry.pc = "loop"
    /\ retry.attempt < retry.max_retries
    /\ \E result \in OperationResults :
        LET delay == IF retry.attempt > 0
                     THEN get_backoff_delay(retry, retry.attempt - 1)
                     ELSE 0
            tried == [retry EXCEPT !.invoked = @ + 1,
                                   !.results = Append(@, result),
                                   !.slept_ms = @ + delay]
        IN  retry' = IF result # "raises" /\ succeeded(result)
                     THEN [tried EXCEPT !.pc = "done", !.returned = "true"]
                     ELSE [tried EXCEPT !.attempt = @ + 1]
    /\ UNCHANGED <<rxVars, connVars, txVars, cfgVars, modeVars, routerVars,
                   rx_msg, raw_hooks, routed, obj, encoded, decoded,
                   client, loops, clock, component, checking>>

\* range(policy.max_retries) is used up: RetryExhausted is logged
RetryExhausted ==
    /\ retry.pc = "loop"
    /\ retry.attempt >= retry.max_retries
    /\ retry' = [retry EXCEPT !.pc = "done", !.returned = "false"]
    /\ UNCHANGED <<rxVars, connVars, txVars, cfgVars, modeVars, routerVars,
                   rx_msg, raw_hooks, routed, obj, encoded, decoded,
                   client, loops, clock, component, checking>>

\* an error whose policy has been looked up, about to be recovered from
InitRetry ==
    /\ InitClient
    /\ InitRouter
    /\ InitNoDetect
    /\ input = <<>>
    /\ DEBUG_UI = FALSE
    /\ DEBUG_CORE = FALSE
    /\ InitMsgIdle
    /\ InitNoReconnect
    /\ InitNoWatchdog
    /\ \E rec \in Recoveries, op \in BOOLEAN, n \in 0..MaxRetries :
        retry = [NoRetry EXCEPT !.recovery = rec, !.has_operation = op,
                                !.max_retries = n]

NextRetry == ExecuteRecovery \/ RetryAttempt \/ RetryExhausted

\* the handler's thread keeps running: a sleep ends, operation() returns
SpecRetry == InitRetry /\ [][NextRetry]_vars /\ WF_vars(NextRetry)

\* ------------------------------------------- DTCClientJSON: reconnecting
\* The client over several connections.  self.sock is the number of the
\* connect() that created the socket, 0 for None; a loop is named by its
\* kind and the number of the connect() that started it, and remembers the
\* socket it last read from or wrote to.
LoopIds == {"rx", "hb"} \X (1..MaxConnects)

NotStarted == [pc |-> "unborn", on |-> 0]

\* while not self._stop and self.sock
loop_test(c) == ~c.stop /\ c.sock # 0

\* close(): _stop set, the socket shut down and closed, self.sock = None
closed(c) == [c EXCEPT !.stop = TRUE, !.open = @ \ {c.sock}, !.sock = 0]

ReconnectUnchanged ==
    UNCHANGED <<rxVars, connVars, txVars, cfgVars, modeVars, routerVars,
                rx_msg, raw_hooks, routed, obj, encoded, decoded,
                retry, clock, component, checking>>

\* connect() on a client that holds no socket: _stop cleared, a new socket,
\* the logon sent by the caller, then the two threads started
ClientConnect ==
    /\ client.sock = 0
    /\ client.connects < MaxConnects
    /\ LET n == client.connects + 1
       IN  /\ client' = [stop |-> FALSE, sock |-> n, open |-> client.open \cup {n},
                         connects |-> n]
           /\ loops' = [loops EXCEPT ![<<"rx", n>>].pc = "test",
                                     ![<<"hb", n>>].pc = "test"]
    /\ ReconnectUnchanged

\* close() called by the application
ClientClose ==
    /\ client.sock # 0
    /\ client' = closed(client)
    /\ UNCHANGED loops
    /\ ReconnectUnchanged

\* a loop evaluates its while condition
LoopTest(l) ==
    /\ loops[l].pc = "test"
    /\ loops' = [loops EXCEPT ![l].pc =
                    IF loop_test(client)
                    THEN (IF l[1] = "rx" THEN "recv" ELSE "send")
                    ELSE (IF l[1] = "rx" THEN "finally" ELSE "done")]
    /\ UNCHANGED client
    /\ ReconnectUnchanged

\* self.sock.recv(65536) is entered: on whatever self.sock is now; on None
\* the AttributeError leaves the loop
RxRecv(l) ==
    /\ loops[l].pc = "recv"
    /\ loops' = IF client.sock = 0
                THEN [loops EXCEPT ![l].pc = "finally"]
                ELSE [loops EXCEPT ![l].pc = "blocked", ![l].on = client.sock]
    /\ UNCHANGED client
    /\ ReconnectUnchanged

\* recv returns: data or a timeout send the loop back to its test, the end
\* of the stream or an OSError (the socket was closed under it) end it
RxReturn(l) ==
    /\ loops[l].pc = "blocked"
    /\ \E outcome \in {"data", "timeout", "eof"} :
        loops' = [loops EXCEPT ![l].pc =
                    IF loops[l].on \notin client.open \/ outcome = "eof"
                    THEN "finally"
                    ELSE "test"]
    /\ UNCHANGED client
    /\ ReconnectUnchanged

\* finally: self.close()
RxFinally(l) ==
    /\ loops[l].pc = "finally"
    /\ client' = closed(client)
    /\ loops' = [loops EXCEPT ![l].pc = "done"]
    /\ ReconnectUnchanged

\* self._send({"Type": HEARTBEAT}): returns when self.sock is None, else
\* sendall on whatever self.sock is now; _send lets no exception out
HbSend(l) ==
    /\ loops[l].pc = "send"
    /\ loops' = IF client.sock = 0
                THEN [loops EXCEPT ![l].pc = "sleep"]
                ELSE [loops EXCEPT ![l].pc = "sleep", ![l].on = client.sock]
    /\ UNCHANGED client
    /\ ReconnectUnchanged

\* time.sleep(4) ends
HbWake(l) ==
    /\ loops[l].pc = "sleep"
    /\ loops' = [loops EXCEPT ![l].pc = "test"]
    /\ UNCHANGED client
    /\ ReconnectUnchanged

InitReconnect ==
    /\ InitClient
    /\ InitRouter
    /\ InitNoDetect
    /\ input = <<>>
    /\ DEBUG_UI = FALSE
    /\ DEBUG_CORE = FALSE
    /\ InitMsgIdle
    /\ InitNoRetry
    /\ InitNoWatchdog
    /\ client = [stop |-> FALSE, sock |-> 0, open |-> {}, connects |-> 0]
    /\ loops = [l \in LoopIds |-> NotStarted]

NextReconnect ==
    \/ ClientConnect
    \/ ClientClose
    \/ \E l \in LoopIds :
        \/ LoopTest(l)
        \/ l[1] = "rx" /\ (RxRecv(l) \/ RxReturn(l) \/ RxFinally(l))
        \/ l[1] = "hb" /\ (HbSend(l) \/ HbWake(l))

SpecReconnect == InitReconnect /\ [][NextReconnect]_vars

\* ------------------------------------------------------ HealthWatchdog
\* One registered component, the watchdog thread and one thread calling
\* heartbeat().  Time is in units of which the component's timeout is two.
heartbeat_timeout == 2

\* ComponentHealth.is_responsive(current_time)
is_responsive(c, current_time) == current_time - c.last_heartbeat < heartbeat_timeout

\* ComponentHealth.update_health(is_healthy, current_time)
update_health(c, healthy, current_time) ==
    IF ~healthy
    THEN [c EXCEPT !.consecutive_failures = @ + 1,
                   !.total_failures = @ + 1,
                   !.last_failure_time = current_time,
                   !.is_healthy = FALSE]
    ELSE [c EXCEPT !.consecutive_failures = 0, !.is_healthy = TRUE]

WatchdogUnchanged ==
    UNCHANGED <<rxVars, connVars, txVars, cfgVars, modeVars, routerVars,
                rx_msg, raw_hooks, routed, obj, encoded, decoded,
                retry, client, loops>>

\* time passes
Tick ==
    /\ clock < MaxClock
    /\ clock' = clock + 1
    /\ UNCHANGED <<component, checking>>
    /\ WatchdogUnchanged

\* heartbeat(component_name): current_time = time.time(), read before the
\* lock is taken
HeartbeatRead ==
    /\ checking.hb_pc = "idle"
    /\ checking' = [checking EXCEPT !.hb_pc = "locked", !.hb_time = clock]
    /\ UNCHANGED <<clock, component>>
    /\ WatchdogUnchanged

\* heartbeat(component_name) under components_lock: last_heartbeat is set
\* and an unhealthy component is marked recovered
HeartbeatRecord ==
    /\ checking.hb_pc = "locked"
    /\ LET beaten == [component EXCEPT !.last_heartbeat = checking.hb_time]
       IN  component' = IF ~component.is_healthy
                        THEN update_health(beaten, TRUE, checking.hb_time)
                        ELSE beaten
    /\ checking' = [checking EXCEPT !.hb_pc = "idle"]
    /\ UNCHANGED clock
    /\ WatchdogUnchanged

\* _watchdog_loop reads time.time() and enters _check_component_health,
\* which copies the component list under the lock and releases it
CheckBegin ==
    /\ checking.pc = "idle"
    /\ checking' = [checking EXCEPT !.pc = "listed", !.current_time = clock]
    /\ UNCHANGED <<clock, component>>
    /\ WatchdogUnchanged

\* is_responsive = component.is_responsive(current_time), lock not held
CheckResponsive ==
    /\ checking.pc = "listed"
    /\ checking' = [checking EXCEPT
                        !.pc = "tested",
                        !.is_responsive = is_responsive(component, checking.current_time)]
    /\ UNCHANGED <<clock, component>>
    /\ WatchdogUnchanged

\* if not is_responsive and component.is_healthy
CheckDecide ==
    /\ checking.pc = "tested"
    /\ checking' = [checking EXCEPT !.pc =
                        IF ~checking.is_responsive /\ component.is_healthy
                        THEN "marking"
                        ELSE "idle"]
    /\ UNCHANGED <<clock, component>>
    /\ WatchdogUnchanged

\* component.update_health(False, current_time), then the event and
\* handle_error
CheckMark ==
    /\ checking.pc = "marking"
    /\ component' = update_health(component, FALSE, checking.current_time)
    /\ checking' = [checking EXCEPT !.pc = "idle"]
    /\ UNCHANGED clock
    /\ WatchdogUnchanged

\* register_component has run at time 0; nobody is inside a call
InitWatchdog ==
    /\ InitClient
    /\ InitRouter
    /\ InitNoDetect
    /\ input = <<>>
    /\ DEBUG_UI = FALSE
    /\ DEBUG_CORE = FALSE
    /\ InitMsgIdle
    /\ InitNoRetry
    /\ InitNoReconnect
    /\ clock = 0
    /\ component = [last_heartbeat |-> 0, is_healthy |-> TRUE,
                    consecutive_failures |-> 0, total_failures |-> 0,
                    last_failure_time |-> None]
    /\ checking = [pc |-> "idle", current_time |-> 0, is_responsive |-> TRUE,
                   hb_pc |-> "idle", hb_time |-> 0]

NextWatchdog ==
    \/ Tick
    \/ HeartbeatRead \/ HeartbeatRecord
    \/ CheckBegin \/ CheckResponsive \/ CheckDecide \/ CheckMark

SpecWatchdog == InitWatchdog /\ [][NextWatchdog]_vars

\* ------------------------------------------------- coalesced UI refresh
\* _flush_ui_updates(), after it cleared the flag: the three update()
\* calls inside its one try
flush_ui_updates(S) ==
    Until(S, <<Invoke("panel_balance", "update"), Invoke("panel_live", "update"),
               Invoke("panel_stats", "update")>>)

\* a request that arms a timer whether or not a refresh is pending
schedule_ui_refresh_unconditionally(S, pending, timers, qt) ==
    IF qt
    THEN [pending |-> TRUE, timers |-> timers + 1, flushed |-> FALSE, calls |-> <<>>]
    ELSE [pending |-> FALSE, timers |-> timers, flushed |-> TRUE,
          calls |-> flush_ui_updates(S)]

\* _schedule_ui_refresh(): nothing when a refresh is pending; otherwise the
\* flag is set and a single-shot timer armed, or, when QTimer cannot be
\* used, _flush_ui_updates() runs at once
schedule_ui_refresh(S, pending, timers, qt) ==
    IF pending
    THEN [pending |-> TRUE, timers |-> timers, flushed |-> FALSE, calls |-> <<>>]
    ELSE IF qt
    THEN [pending |-> TRUE, timers |-> timers + 1, flushed |-> FALSE, calls |-> <<>>]
    ELSE [pending |-> FALSE, timers |-> timers, flushed |-> TRUE,
          calls |-> flush_ui_updates(S)]

\* a caller requests a refresh
ScheduleUiRefresh ==
    /\ events < MaxEvents
    /\ events' = events + 1
    /\ LET r == schedule_ui_refresh(RouterState, ui_refresh_pending, ui_timers,
                                    qt_available)
       IN  /\ ui_refresh_pending' = r.pending
           /\ ui_timers' = r.timers
           /\ calls' = r.calls
           /\ last_msg' = [NoMsg EXCEPT !.path = "refresh",
                                        !.kind = IF r.flushed THEN "flush" ELSE "request",
                                        !.pending = ui_refresh_pending]
    /\ UNCHANGED <<rxVars, connVars, txVars, cfgVars, msgVars, modeVars, debounceVars,
                   sessionVars, r_current_mode, r_current_account, faulty,
                   qt_pending, qt_available>>

\* an armed timer fires: _flush_ui_updates()
FlushUiUpdates ==
    /\ ui_timers > 0
    /\ ui_timers' = ui_timers - 1
    /\ ui_refresh_pending' = FALSE
    /\ calls' = flush_ui_updates(RouterState)
    /\ last_msg' = [NoMsg EXCEPT !.path = "timer", !.kind = "flush",
                                 !.pending = ui_refresh_pending]
    /\ UNCHANGED <<rxVars, connVars, txVars, cfgVars, msgVars, modeVars, debounceVars,
                   sessionVars, r_current_mode, r_current_account, events, faulty,
                   qt_pending, qt_available>>

\* with and without a usable QTimer, with and without a raising collaborator
InitRefresh ==
    /\ InitRouterStart
    /\ faulty \in Collaborators \cup {"none"}
    /\ qt_pending = <<>>
    /\ qt_available \in BOOLEAN
    /\ ui_refresh_pending = FALSE
    /\ ui_timers = 0

\* messages through route(), refresh requests and timers
NextRefresh ==
    \/ RouteOrder \/ RoutePosition \/ RouteBalance
    \/ ScheduleUiRefresh \/ FlushUiUpdates

SpecRefresh == InitRefresh /\ [][NextRefresh]_vars

\* ------------------------------------------------------ classification
\* the value of a record's "Type" member: an int, a str, a bool, a float
\* or nothing (msg.get("Type") is None)
IntT(n) == [t |-> "int", n |-> n, s |-> ""]

StrT(str) == [t |-> "str", n |-> 0, s |-> str]

BoolT(b) == [t |-> "bool", n |-> IF b THEN 1 ELSE 0, s |-> ""]

FloatT(n) == [t |-> "float", n |-> n, s |-> ""]

NoType == [t |-> "none", n |-> 0, s |-> ""]

\* the table of _type_to_str, by the values of the constants of lines 22-70
TYPE_NAMES ==
    1 :> "LogonRequest" @@
    2 :> "LogonResponse" @@
    3 :> "Heartbeat" @@
    4 :> "Logoff" @@
    5 :> "EncodingRequest" @@
    6 :> "EncodingResponse" @@
    101 :> "MarketDataRequest" @@
    103 :> "MarketDataReject" @@
    107 :> "MarketDataUpdateTrade" @@
    108 :> "MarketDataUpdateBidAsk" @@
    120 :> "MarketDataUpdateSessionOpen" @@
    121 :> "MarketDataUpdateSessionHigh" @@
    122 :> "MarketDataUpdateSessionLow" @@
    123 :> "MarketDataUpdateSessionVolume" @@
    124 :> "MarketDataUpdateOpenInterest" @@
    305 :> "OpenOrdersRequest" @@
    301 :> "OrderUpdate" @@
    303 :> "HistoricalOrderFillsRequest" @@
    304 :> "HistoricalOrderFillResponse" @@
    306 :> "PositionUpdate" @@
    307 :> "OrderFillResponse" @@
    308 :> "NewOrderRequest" @@
    309 :> "OrderCancelRequest" @@
    310 :> "OrderCancelReplaceRequest" @@
    311 :> "OrderCancelReject" @@
    312 :> "OrderReject" @@
    313 :> "OrdersCancelledNotification" @@
    400 :> "TradeAccountsRequest" @@
    401 :> "TradeAccountResponse" @@
    500 :> "CurrentPositionsRequest" @@
    600 :> "AccountBalanceUpdate" @@
    601 :> "AccountBalanceRequest" @@
    700 :> "HistoricalPriceDataRequest" @@
    701 :> "HistoricalPriceDataResponseHeader" @@
    702 :> "HistoricalPriceDataRecordResponse" @@
    703 :> "HistoricalPriceDataTickRecordResponse" @@
    704 :> "HistoricalPriceDataReject" @@
    800 :> "UserMessage" @@
    801 :> "GeneralLogMessage" @@
    802 :> "AlertMessage"

Digit(d) ==
    CASE d = 0 -> "0" [] d = 1 -> "1" [] d = 2 -> "2" [] d = 3 -> "3" [] d = 4 -> "4"
      [] d = 5 -> "5" [] d = 6 -> "6" [] d = 7 -> "7" [] d = 8 -> "8" [] d = 9 -> "9"

\* str(n) for a natural number n
RECURSIVE Decimal(_)
Decimal(n) == IF n < 10 THEN Digit(n) ELSE Decimal(n \div 10) \o Digit(n % 10)

\* a _type_to_str that looks no integer up
type_name_without_table(v) ==
    CASE v.t = "str" -> v.s
      [] v.t = "int" -> Decimal(v.n)
      [] v.t = "bool" -> IF v.n = 1 THEN "True" ELSE "False"
      [] OTHER -> "?"

\* _type_to_str(t) over every kind of value: a str is its own name, an int
\* (a bool is one, and True == 1) is looked up and falls back to str(t),
\* anything else is "?"
type_name(v) ==
    CASE v.t = "str" -> v.s
      [] v.t = "int" ->
            IF v.n \in DOMAIN TYPE_NAMES THEN TYPE_NAMES[v.n] ELSE Decimal(v.n)
      [] v.t = "bool" ->
            IF v.n \in DOMAIN TYPE_NAMES THEN TYPE_NAMES[v.n] ELSE "False"
      [] OTHER -> "?"

\* the branch of _dispatch_for_panels a type name takes: the typed
\* consumer it is handed to, "none" when it returns without a call
typed_consumer(tname) ==
    CASE tname \in {"LogonResponse", "EncodingResponse", "Heartbeat"} -> "none"
      [] tname \in {"TradeAccountResponse", "TradeAccountsResponse"} -> "on_trade_account"
      [] tname \in {"AccountBalanceUpdate", "AccountBalanceResponse"} -> "on_account_balance"
      [] tname = "PositionUpdate" -> "on_position"
      [] tname = "OrderUpdate" -> "on_order"
      [] tname \in {"OrderFillResponse", "HistoricalOrderFillResponse"} -> "on_order_fill"
      [] tname \in {"MarketDataUpdateTrade", "MarketDataSnapshot",
                     "MarketDataUpdateLastTrade"} -> "on_md_trade"
      [] tname = "MarketDataUpdateBidAsk" -> "on_md_bidask"
      [] tname \in {"SecurityDefinitionResponse",
                     "SecurityDefinitionForSymbolResponse"} -> "on_security_definition"
      [] OTHER -> "none"

\* the calls _dispatch_for_panels makes for msg, every consumer registered:
\* the typed consumer, then the seed-done callback when a position or
\* order update completes a seed
typed_calls(msg) ==
    LET tname == type_name(msg.Type)
        cb == typed_consumer(tname)
    IN  IF cb = "none"
        THEN <<>>
        ELSE IF cb = "on_position" /\ msg.seed_done
        THEN <<cb, "on_positions_seed_done">>
        ELSE IF cb = "on_order" /\ msg.seed_done
        THEN <<cb, "on_orders_seed_done">>
        ELSE <<cb>>

\* lines 364-366: the raw-stream call the receive loop makes after the
\* dispatch.  self.on_any_message is assigned at line 200 and called nowhere
raw_calls(hooks) == IF hooks.on_msg THEN <<"on_msg">> ELSE <<>>

\* the receive loop handles one decoded record: _dispatch_for_panels(msg),
\* then the raw-stream hook
DispatchRecord ==
    /\ routed = <<>>
    /\ routed' = <<[tname |-> type_name(rx_msg[1].Type),
                    calls |-> typed_calls(rx_msg[1]),
                    raw |-> raw_calls(raw_hooks)]>>
    /\ UNCHANGED <<rxVars, connVars, txVars, cfgVars, modeVars, routerVars,
                   rx_msg, raw_hooks, obj, encoded, decoded, svcVars>>

\* the names the dispatch tests for
DispatchNames ==
    {"LogonResponse", "EncodingResponse", "Heartbeat", "TradeAccountResponse",
     "TradeAccountsResponse", "AccountBalanceUpdate", "AccountBalanceResponse",
     "PositionUpdate", "OrderUpdate", "OrderFillResponse",
     "HistoricalOrderFillResponse", "MarketDataUpdateTrade", "MarketDataSnapshot",
     "MarketDataUpdateLastTrade", "MarketDataUpdateBidAsk",
     "SecurityDefinitionResponse", "SecurityDefinitionForSymbolResponse"}

TableNames == {TYPE_NAMES[n] : n \in DOMAIN TYPE_NAMES}

\* the "Type" values tried: every table key and every table name, the names
\* only the dispatch knows, integers and strings in no table, a float that
\* equals a table key, both bools, and no "Type" at all
TypeValues ==
    {IntT(n) : n \in DOMAIN TYPE_NAMES} \cup {StrT(str) : str \in TableNames}
    \cup {StrT(str) : str \in DispatchNames}
    \cup {IntT(0), IntT(300), IntT(999), StrT("positionupdate"), StrT("306"),
          StrT(""), StrT("?"), FloatT(306), BoolT(TRUE), BoolT(FALSE), NoType}

InitClassify ==
    /\ InitClient
    /\ InitRouter
    /\ InitNoDetect
    /\ input = <<>>
    /\ DEBUG_UI = FALSE
    /\ DEBUG_CORE = FALSE
    /\ rx_msg \in {<<[Type |-> v, seed_done |-> sd]>> : v \in TypeValues, sd \in BOOLEAN}
    /\ raw_hooks \in [on_msg : BOOLEAN, on_any_message : BOOLEAN]
    /\ routed = <<>>
    /\ obj = <<>>
    /\ encoded = <<>>
    /\ decoded = <<>>
    /\ InitNoRetry
    /\ InitNoReconnect
    /\ InitNoWatchdog

NextClassify == DispatchRecord

SpecClassify == InitClassify /\ [][NextClassify]_vars

\* ------------------------------------------------------------ the codec
\* A message is a sequence of fields with distinct keys; a key is a string,
\* a value a string or an integer; a string is a sequence of characters.
\* "NUL" is the character U+0000, whose UTF-8 encoding is the delimiter
\* byte, and "é" stands for the characters outside ASCII.
Chars == {"a", "\"", "\\", "NUL", "é"}

StrV(str) == [t |-> "str", n |-> 0, s |-> str]

IntV(n) == [t |-> "int", n |-> n, s |-> <<>>]

\* the \uXXXX escapes json.dumps writes for the characters above
UNICODE_ESCAPES == [c \in {"NUL", "é"} |->
                      IF c = "NUL" THEN <<"0", "0", "0", "0">> ELSE <<"0", "0", "e", "9">>]

\* the text of one character inside a JSON string, ensure_ascii on
escape(c) ==
    CASE c = "\"" -> <<"\\", "\"">>
      [] c = "\\" -> <<"\\", "\\">>
      [] c \in DOMAIN UNICODE_ESCAPES -> <<"\\", "u">> \o UNICODE_ESCAPES[c]
      [] OTHER -> <<c>>

RECURSIVE escaped(_)
escaped(str) == IF str = <<>> THEN <<>> ELSE escape(Head(str)) \o escaped(Tail(str))

\* the decimal text of an integer
RECURSIVE digits(_)
digits(n) == IF n < 10 THEN <<Digit(n)>> ELSE digits(n \div 10) \o <<Digit(n % 10)>>

dumps_value(v) ==
    IF v.t = "str"
    THEN <<"\"">> \o escaped(v.s) \o <<"\"">>
    ELSE IF v.n < 0 THEN <<"-">> \o digits(0 - v.n) ELSE digits(v.n)

RECURSIVE dumps_members(_)
dumps_members(fields) ==
    IF fields = <<>>
    THEN <<>>
    ELSE <<"\"">> \o escaped(Head(fields).key) \o <<"\"", ":">>
         \o dumps_value(Head(fields).val)
         \o (IF Len(fields) > 1 THEN <<",">> ELSE <<>>)
         \o dumps_members(Tail(fields))

\* an encoder that writes every character of a string as it is
RECURSIVE dumps_raw_members(_)
dumps_raw_members(fields) ==
    IF fields = <<>>
    THEN <<>>
    ELSE <<"\"">> \o Head(fields).key \o <<"\"", ":">>
         \o (IF Head(fields).val.t = "str"
             THEN <<"\"">> \o Head(fields).val.s \o <<"\"">>
             ELSE dumps_value(Head(fields).val))
         \o (IF Len(fields) > 1 THEN <<",">> ELSE <<>>)
         \o dumps_raw_members(Tail(fields))

json_dumps_unescaped(o) == <<"{">> \o dumps_raw_members(o) \o <<"}">>

\* json.dumps(obj, separators=(",", ":")).encode("utf-8"): the text is
\* ASCII, so each character is one byte
json_dumps(o) == <<"{">> \o dumps_members(o) \o <<"}">>

\* _send builds data = json.dumps(obj, ...).encode("utf-8") + NULL
send_data(o) == json_dumps(o) \o <<NULL>>

ParseFail == [ok |-> FALSE, val |-> <<>>, next |-> 0]

DigitValue(c) ==
    CASE c = "0" -> 0 [] c = "1" -> 1 [] c = "2" -> 2 [] c = "3" -> 3 [] c = "4" -> 4
      [] c = "5" -> 5 [] c = "6" -> 6 [] c = "7" -> 7 [] c = "8" -> 8 [] c = "9" -> 9

IsDigit(c) == c \in {"0", "1", "2", "3", "4", "5", "6", "7", "8", "9"}

\* the characters of a JSON string whose opening quote came before raw[i],
\* up to its closing quote; a control character inside it is an error
RECURSIVE parse_string(_, _, _)
parse_string(raw, i, acc) ==
    IF i > Len(raw)
    THEN ParseFail
    ELSE IF raw[i] = "\""
    THEN [ok |-> TRUE, val |-> acc, next |-> i + 1]
    ELSE IF raw[i] = NULL
    THEN ParseFail
    ELSE IF raw[i] # "\\"
    THEN parse_string(raw, i + 1, Append(acc, raw[i]))
    ELSE IF i + 1 > Len(raw)
    THEN ParseFail
    ELSE IF raw[i + 1] \in {"\"", "\\"}
    THEN parse_string(raw, i + 2, Append(acc, raw[i + 1]))
    ELSE IF raw[i + 1] = "u" /\ i + 5 <= Len(raw)
            /\ \E c \in DOMAIN UNICODE_ESCAPES : UNICODE_ESCAPES[c] = SubSeq(raw, i + 2, i + 5)
    THEN parse_string(raw, i + 6,
            Append(acc, CHOOSE c \in DOMAIN UNICODE_ESCAPES :
                            UNICODE_ESCAPES[c] = SubSeq(raw, i + 2, i + 5)))
    ELSE ParseFail

\* the digits from raw[i] on, as a number
RECURSIVE parse_digits(_, _, _)
parse_digits(raw, i, acc) ==
    IF i <= Len(raw) /\ IsDigit(raw[i])
    THEN parse_digits(raw, i + 1, 10 * acc + DigitValue(raw[i]))
    ELSE [ok |-> TRUE, val |-> acc, next |-> i]

parse_value(raw, i) ==
    IF i > Len(raw)
    THEN ParseFail
    ELSE IF raw[i] = "\""
    THEN LET r == parse_string(raw, i + 1, <<>>)
         IN  IF r.ok THEN [r EXCEPT !.val = StrV(r.val)] ELSE ParseFail
    ELSE IF raw[i] = "-" /\ i + 1 <= Len(raw) /\ IsDigit(raw[i + 1])
    THEN LET r == parse_digits(raw, i + 1, 0)
         IN  [r EXCEPT !.val = IntV(0 - r.val)]
    ELSE IF IsDigit(raw[i])
    THEN LET r == parse_digits(raw, i, 0)
         IN  [r EXCEPT !.val = IntV(r.val)]
    ELSE ParseFail

\* the members of an object from raw[i] on, up to its closing brace
RECURSIVE parse_members(_, _, _)
parse_members(raw, i, acc) ==
    IF i > Len(raw) \/ raw[i] # "\""
    THEN ParseFail
    ELSE LET k == parse_string(raw, i + 1, <<>>)
         IN  IF ~k.ok \/ k.next > Len(raw) \/ raw[k.next] # ":"
             THEN ParseFail
             ELSE LET v == parse_value(raw, k.next + 1)
                      fields == Append(acc, [key |-> k.val, val |-> v.val])
                  IN  IF ~v.ok \/ v.next > Len(raw)
                      THEN ParseFail
                      ELSE IF raw[v.next] = "}"
                      THEN [ok |-> TRUE, val |-> fields, next |-> v.next + 1]
                      ELSE IF raw[v.next] = ","
                      THEN parse_members(raw, v.next + 1, fields)
                      ELSE ParseFail

\* json.loads(raw.decode("utf-8")) for the text of an object: the record,
\* or a raised exception
loads_object(raw) ==
    IF Len(raw) < 2 \/ raw[1] # "{"
    THEN ParseFail
    ELSE IF raw[2] = "}"
    THEN (IF Len(raw) = 2 THEN [ok |-> TRUE, val |-> <<>>, next |-> 3] ELSE ParseFail)
    ELSE LET r == parse_members(raw, 2, <<>>)
         IN  IF r.ok /\ r.next = Len(raw) + 1 THEN r ELSE ParseFail

RECURSIVE StringsUpTo(_)
StringsUpTo(n) ==
    IF n = 0
    THEN {<<>>}
    ELSE LET shorter == StringsUpTo(n - 1)
         IN  shorter \cup {Append(str, c) : str \in shorter, c \in Chars}

\* the values tried: every string of up to MaxStrLen characters, and integers
Values == {StrV(str) : str \in StringsUpTo(MaxStrLen)} \cup {IntV(0), IntV(306), IntV(0 - 15)}

\* the keys tried: a plain one, and one made of the characters that need
\* an escape
Keys == <<<<"a">>, <<"\"", "NUL", "é", "\\">>>>

\* the messages tried: no field, one, or one under each key
Objects == UNION {[1..n -> Values] : n \in 0..Len(Keys)}

WithKeys(vals) == [i \in 1..Len(vals) |-> [key |-> Keys[i], val |-> vals[i]]]

\* _send(obj) up to the bytes it hands to sendall
Encode ==
    /\ encoded = <<>>
    /\ encoded' = send_data(obj)
    /\ UNCHANGED <<rxVars, connVars, txVars, cfgVars, modeVars, routerVars,
                   rx_msg, raw_hooks, routed, obj, decoded, svcVars>>

\* the receive loop's inner loop on those bytes: the frame before the first
\* delimiter, decoded
Decode ==
    /\ encoded # <<>>
    /\ decoded = <<>>
    /\ IndexOfNull(encoded) > 0
    /\ decoded' = <<loads_object(FrameAt(encoded, IndexOfNull(encoded)))>>
    /\ UNCHANGED <<rxVars, connVars, txVars, cfgVars, modeVars, routerVars,
                   rx_msg, raw_hooks, routed, obj, encoded, svcVars>>

InitCodec ==
    /\ InitClient
    /\ InitRouter
    /\ InitNoDetect
    /\ input = <<>>
    /\ DEBUG_UI = FALSE
    /\ DEBUG_CORE = FALSE
    /\ rx_msg = <<>>
    /\ raw_hooks = [on_msg |-> TRUE, on_any_message |-> FALSE]
    /\ routed = <<>>
    /\ obj \in {WithKeys(vals) : vals \in Objects}
    /\ encoded = <<>>
    /\ decoded = <<>>
    /\ InitNoRetry
    /\ InitNoReconnect
    /\ InitNoWatchdog

NextCodec == Encode \/ Decode

SpecCodec == InitCodec /\ [][NextCodec]_vars

\* ================================================================ claims
\* The frames of a byte stream: what lies before each delimiter
RECURSIVE SplitFrames(_)
SplitFrames(bytes) ==
    LET i == IndexOfNull(bytes)
    IN  IF i = 0
        THEN <<>>
        ELSE <<SubSeq(bytes, 1, i - 1)>> \o SplitFrames(SubSeq(bytes, i + 1, Len(bytes)))

\* a well-formed frame decodes to a key-value record
WellFormed(raw) == json_loads(raw).ok /\ json_loads(raw).kind = "dict"

\* garbage does not decode
Garbage(raw) == ~json_loads(raw).ok

RECURSIVE Decoded(_)
Decoded(frames) ==
    IF frames = <<>> THEN <<>> ELSE <<json_loads(Head(frames))>> \o Decoded(Tail(frames))

\* the records of a stream, in stream order
Records(bytes) == Decoded(SelectSeq(SplitFrames(bytes), WellFormed))

\* every frame of the stream is well-formed or garbage
FramesAndGarbage ==
    \A f \in Range(SplitFrames(input)) : WellFormed(f) \/ Garbage(f)

RxLeft == pc["rx"] \in CloseLabels \cup {"done"}

\* the receive loop took the whole stream and is out of its frame loop
RxDrained == rpos = Len(input) /\ pc["rx"] \in {"r_check", "r_recv", "done"} \cup CloseLabels

\* C1: for a stream of N well-formed frames, each ended by the delimiter, and
\* garbage (frames that do not decode, and bytes after the last delimiter),
\* once the loop has taken the whole stream it has handed exactly the N
\* records, in order, to typed dispatch and to the raw hook, and no
\* exception has left the loop from the handling of a frame; when the
\* stream then ends, no exception leaves the loop at all.
C1_ExactlyNFrames ==
    (FramesAndGarbage /\ pc["rx"] # "idle") =>
        /\ rx_exc # "frame_handling"
        /\ RxDrained =>
            LET records == Records(input)
            IN  /\ Len(dispatched) = Len(SelectSeq(SplitFrames(input), WellFormed))
                /\ dispatched = records
                /\ hooked = records
                /\ lastRecv = "eof" => rx_exc = "none"

C1_Witness ==
    /\ FramesAndGarbage
    /\ pc["rx"] = "done"
    /\ lastRecv = "eof"
    /\ Len(dispatched) = 2
    /\ dropped >= 1
    /\ rx_buf # <<>>

\* C2: in a stream of well-formed frames and garbage, once a frame failed to
\* decode the loop is still running its frame loop or its read loop unless
\* a read ended it; the records handed out so far followed by the records
\* still buffered are the records received, in stream order; and when the
\* whole stream was taken no frame is left in the buffer.
C2_DropKeepsLoop ==
    (FramesAndGarbage /\ dropped > 0) =>
        /\ rx_exc # "frame_handling"
        /\ RxLeft => lastRecv \in {"eof", "error"}
        /\ dispatched \o Records(rx_buf) = Records(SubSeq(input, 1, rpos))
        /\ RxDrained => IndexOfNull(rx_buf) = 0 /\ dispatched = Records(input)

C2_Witness ==
    /\ FramesAndGarbage
    /\ dropped = 1
    /\ Len(SplitFrames(input)) = 3
    /\ Garbage(SplitFrames(input)[1])
    /\ SplitFrames(input)[1] # <<>>
    /\ Len(dispatched) = 2
    /\ dispatched[1] # dispatched[2]
    /\ RxDrained

\* C3: no exception raised while a decoded frame is handled leaves the
\* receive loop, whatever the frame decodes to; the loop ends only on a read
\* failure or the end of the stream (close() is not called in SpecRx).
C3_NothingEscapes ==
    /\ rx_exc # "frame_handling"
    /\ RxLeft => lastRecv \in {"eof", "error"}

\* C4: a _send that ended for want of a connection, on a serialization
\* failure or on a write failure raised, or returned something a successful
\* _send does not return.
C4_SendFailsLoudly ==
    \A t \in {"app", "hb"} :
        sendResult[t].cause \in {"no_socket", "serialization", "unexpected", "oserror"} =>
            sendResult[t].raised \/ sendResult[t].value # send_report("ok").value

\* C5: over the close() calls of the application and of the receive loop's
\* exit, the connection is released at most once and the disconnect
\* callback is invoked at most once.
C5_CloseOnce == released <= 1 /\ disconnects <= 1

LoopsTerminated == pc["rx"] \in {"idle", "done"} /\ pc["hb"] \in {"idle", "done"}

C7_ReadFailureCloses ==
    /\ [][(pc["rx"] = "r_recv" /\ pc'["rx"] # "r_recv") =>
            /\ lastRecv' \in {"eof", "error"} => pc'["rx"] = "c_stop" /\ ret'["rx"] = "done"
            /\ lastRecv' = "timeout" =>
                pc'["rx"] = "r_check" /\ stop' = stop /\ sock' = sock /\ sockState' = sockState]_vars
    /\ [](pc["rx"] = "done" => disconnects >= 1)

C7_Witness ==
    /\ pc["rx"] = "done"
    /\ lastRecv = "error"
    /\ appCloses = 0
    /\ disconnects = 1

\* C8: the step in which sendall fails changes neither the connection nor
\* the stop flag nor the position of any other thread, and returns to the
\* caller; the heartbeat loop goes from its _send back to its loop test.
SendErrorContained ==
    /\ \A t \in {"app", "hb"} :
        (pc[t] = "s_write" /\ pc'[t] # "s_write" /\ sendResult'[t].cause = "oserror") =>
            /\ sock' = sock /\ sockState' = sockState /\ stop' = stop
            /\ pc'[t] = ret[t]
            /\ \A u \in Threads \ {t} : pc'[u] = pc[u]
            /\ disconnects' = disconnects
    /\ (pc["hb"] = "h_sent" /\ pc'["hb"] # "h_sent") => pc'["hb"] = "h_check"

C8_SendErrorContained == [][SendErrorContained]_vars

C8_Witness ==
    /\ sendResult["hb"].cause = "oserror"
    /\ pc["hb"] = "h_check"
    /\ pc["rx"] \in {"r_check", "r_recv"}
    /\ sock = "sock"
    /\ sockState = "open"
    /\ ~stop

\* C9: the bytes of a frame are contiguous on the wire: a byte that is not
\* the first of its frame comes right after the byte before it in that
\* frame, so that no byte of another frame lies between two bytes of one.
C9_FramesContiguous ==
    \A j \in 2..Len(wire) :
        wire[j].at > 1 => wire[j - 1].by = wire[j].by /\ wire[j - 1].at = wire[j].at - 1

\* detect(account) as the claim states it, on the account as given
ClaimedMode(acct, live) ==
    IF acct.kind # "str" \/ acct.val = <<>>
    THEN "DEBUG"
    ELSE IF acct.val = live
    THEN "LIVE"
    ELSE IF StartsWith(acct.val, <<"S", "i", "m">>)
    THEN "SIM"
    ELSE "DEBUG"

\* C10 as stated: the result is DEBUG for an empty, missing or non-string
\* account, LIVE for the configured LIVE account, SIM for the prefix "Sim",
\* DEBUG otherwise, all read on the account as given.
C10_DetectAsStated ==
    mode # "unset" => mode = ClaimedMode(account, live_account)

\* C10 amended: the same rule read on the account with leading and trailing
\* whitespace removed; with LIVE account "120005", detect("")=DEBUG,
\* detect("120005")=LIVE, detect("Sim1")=detect("Sim2")=SIM and
\* detect("Unknown123")=DEBUG.
C10_DetectOnStripped ==
    mode # "unset" =>
        /\ mode \in {"LIVE", "SIM", "DEBUG"}
        /\ mode = ClaimedMode([kind |-> account.kind, val |-> Strip(account.val)], live_account)
        /\ live_account = Acct120005 =>
            /\ account = [kind |-> "str", val |-> <<>>] => mode = "DEBUG"
            /\ account = [kind |-> "str", val |-> Acct120005] => mode = "LIVE"
            /\ account.val \in {Sim1, Sim2} => mode = "SIM"
            /\ account.val = Unknown123 => mode = "DEBUG"

C10_Witness ==
    /\ mode = "SIM"
    /\ account = [kind |-> "str", val |-> <<" ", "S", "i", "m">>]

\* ---------------------------------------------------------------- fairness
RxThread == RxIdleStep \/ RxRecvNoSock \/ CloseStep("rx")

HbThread == HbStep \/ SendStep("hb")

\* Termination: the application connects and calls close(); its own _send
\* calls, which touch neither loop test, are left to Spec
NextLive ==
    \/ Connect
    \/ ConnectStartThreads
    \/ AppClose
    \/ RxIdleStep
    \/ RxRecvNoSock
    \/ HbStep
    \/ \E t \in {"app", "rx"} : CloseStep(t)
    \/ \E t \in {"app", "hb"} : SendStep(t)

\* both loops are threads the scheduler keeps running; recv and sendall
\* return within the socket timeout
SpecLive == Init /\ [][NextLive]_vars /\ WF_vars(RxThread) /\ WF_vars(HbThread)

\* ------------------------------------------------------ debounce claims
\* the step is one call of should_switch_mode_debounced
IsSwitchCall == events' = events + 1 /\ last_switch'.called

\* the call proposes ("SIM", "Sim1") against current mode LIVE
ProposesSim1(c) ==
    /\ c.called
    /\ c.acct = Str(Sim1)
    /\ c.current_mode = "LIVE"
    /\ c.qty # Num(0)
    /\ detect_mode_from_account(c.acct, live_account) = "SIM"

C11_Step ==
    IsSwitchCall =>
        LET c == last_switch'
            prev == last_switch
        IN  /\ (ProposesSim1(c) /\ c.before = <<>>) => ~c.result
            /\ (/\ ProposesSim1(prev) /\ prev.before = <<>>
                /\ ProposesSim1(c) /\ c.at - prev.at < DEBOUNCE_WINDOW_MS)
                    => c.result
            /\ (Len(c.before) = 1 /\ c.at - c.before[1].ts > DEBOUNCE_WINDOW_MS)
                    => ~c.result

\* C11: with current mode LIVE and an empty queue, two calls proposing
\* ("SIM", "Sim1") less than 750 ms apart return false then true; a call
\* more than 750 ms after the only prior proposal returns false
C11_FalseThenTrue == [][C11_Step]_vars

\* the second of two Sim1 proposals, 749 ms after the first, returned true
C11_Witness ==
    /\ ProposesSim1(last_switch)
    /\ last_switch.result
    /\ Len(last_switch.before) = 1
    /\ last_switch.before[1].account = Str(Sim1)
    /\ last_switch.at - last_switch.before[1].ts = DEBOUNCE_WINDOW_MS - 1

\* the queue the claim describes: the candidate appended, then every entry
\* older than the window removed
AppendedAndPruned(c) ==
    LET e == [ts |-> c.at, mode |-> detect_mode_from_account(c.acct, live_account),
              account |-> c.acct]
    IN  SelectSeq(Append(c.before, e), LAMBDA x : c.at - x.ts <= DEBOUNCE_WINDOW_MS)

LatestTwoAgree(q) ==
    /\ Len(q) >= 2
    /\ q[Len(q)].mode = q[Len(q) - 1].mode
    /\ q[Len(q)].account = q[Len(q) - 1].account

C12_Step ==
    IsSwitchCall =>
        LET c == last_switch'
        IN  /\ c.result => LatestTwoAgree(AppendedAndPruned(c))
            /\ c.result => mode_candidates' = <<>>
            /\ (~c.result /\ mode_candidates # <<>>) => mode_candidates' # <<>>

\* C12: should_switch returns true only when, after appending and pruning,
\* the two most recent entries agree on mode and account; the queue is
\* cleared when a call returns true and never by a call that returns false
C12_CommitOnlyOnAgreement == [][C12_Step]_vars

\* a call returned false with two entries in the window that disagree, and
\* left both in the queue
C12_Witness ==
    /\ last_switch.called
    /\ ~last_switch.result
    /\ Len(mode_candidates) = 2
    /\ mode_candidates[1].account # mode_candidates[2].account

\* -------------------------------------------------------- router claims
\* the step is one handler run on a message of the kind
IsHandled(kind) == events' = events + 1 /\ last_msg'.kind = kind

IsHandledBy(path, kind) == IsHandled(kind) /\ last_msg'.path = path

DetectedMode(m) == detect_mode_from_account(Str(m.TradeAccount), live_account)

\* Session State records an open position under a mode of strictly higher
\* precedence than m
HeldAbove(m) ==
    \E sym \in Symbols :
        state_positions[sym].open /\ Precedence(state_positions[sym].mode) > Precedence(m)

C13_Step ==
    /\ \A m \in {"SIM", "DEBUG"} :
        HeldAbove(m) =>
            /\ r_current_mode' = m => r_current_mode = m
            /\ state_current_mode' = m => state_current_mode = m
    /\ (events' = events + 1 /\ last_msg'.blocked) => DetectedMode(last_msg') # "LIVE"

\* C13: the current mode never changes to SIM or DEBUG while Session State
\* records an open position under a strictly higher-precedence mode, and a
\* detected switch into LIVE is never rejected
C13_PrecedenceHolds == [][C13_Step]_vars

IsDelivery(c) == c.op \in {"on_order_update", "on_position_update"}

C14_Step ==
    (events' = events + 1 /\ last_msg'.blocked) =>
        /\ r_current_mode' = r_current_mode
        /\ r_current_account' = r_current_account
        /\ state_current_mode' = state_current_mode
        /\ \A i \in 1..Len(calls') :
            calls'[i].op # "set_trading_mode" /\ ~IsDelivery(calls'[i])

\* C14: when the precedence gate rejects a debounced switch, the router's
\* mode and account are unchanged, no consumer gets set_trading_mode and the
\* triggering payload is delivered to no consumer
C14_BlockedDropsMessage == [][C14_Step]_vars

\* the second of two agreeing SIM signals was rejected: a LIVE position is open
C14_Witness ==
    /\ last_msg.blocked
    /\ last_msg.path = "signal"
    /\ last_switch.result
    /\ DetectedMode(last_msg) = "SIM"
    /\ r_current_mode # "SIM"
    /\ calls = <<>>
    /\ HeldAbove("SIM")

IsLiveOrder(m) == m.kind = "order" /\ m.TradeAccount = live_account /\ live_account # <<>>

C15_StatedStep ==
    /\ (IsHandledBy("signal", "order") /\ IsLiveOrder(last_msg') /\ r_current_mode = "DEBUG")
            => r_current_mode' = "LIVE"
    /\ (IsHandledBy("route", "order") /\ IsLiveOrder(last_msg') /\ state_current_mode = "DEBUG")
            => state_current_mode' = "LIVE"

PreviousAgrees(m) ==
    /\ mode_candidates # <<>>
    /\ mode_candidates[Len(mode_candidates)].mode = DetectedMode(m)
    /\ mode_candidates[Len(mode_candidates)].account = Str(m.TradeAccount)
    /\ now' - mode_candidates[Len(mode_candidates)].ts <= DEBOUNCE_WINDOW_MS

C15_AmendedStep ==
    /\ (IsHandledBy("route", "order") /\ IsLiveOrder(last_msg') /\ state_current_mode = "DEBUG")
            => state_current_mode' = "LIVE"
    /\ (IsHandledBy("signal", "order") /\ IsLiveOrder(last_msg') /\ r_current_mode = "DEBUG")
            => (r_current_mode' = "LIVE" <=> PreviousAgrees(last_msg'))

NotifiedBeforeDelivery(cs) ==
    \A p \in 1..Len(Panels) :
        \E i \in 1..Len(cs) :
            /\ cs[i].op = "set_trading_mode"
            /\ cs[i].to = Panels[p]
            /\ \A j \in 1..Len(cs) : IsDelivery(cs[j]) => i < j

C16_Step ==
    ((IsHandled("order") \/ IsHandled("position")) /\ last_msg'.switched)
        => NotifiedBeforeDelivery(calls')

\* C16: whenever an order or position message commits a mode switch, every
\* consumer's set_trading_mode is issued before the payload is delivered
C16_NotifyBeforeDeliver == [][C16_Step]_vars

C17_Step ==
    (IsHandled("position") /\ last_msg'.qty = Num(0)) =>
        /\ mode_candidates' = mode_candidates
        /\ r_current_mode' = r_current_mode
        /\ r_current_account' = r_current_account
        /\ state_current_mode' = state_current_mode
        /\ \A i \in 1..Len(calls') : calls'[i].op # "set_trading_mode"
        /\ last_msg'.path = "route" =>
            /\ ~state_positions'[last_msg'.symbol].open
            /\ \A sym \in Symbols \ {last_msg'.symbol} :
                state_positions'[sym] = state_positions[sym]
            /\ on_position_update(RouterState', last_msg').S = RouterState'

ReachesPositionHook(cs) == \E i \in 1..Len(cs) : cs[i].op = "on_position_update"

IsStale(m) == m.qty # Num(0) /\ (m.avg_entry = None \/ m.avg_entry = Num(0))

C18_Step ==
    (IsHandled("position") /\ IsStale(last_msg')) =>
        /\ ~ReachesPositionHook(calls')
        /\ state_positions' = state_positions

\* C18: a position update with non-zero quantity and a missing or zero
\* reference price reaches no position hook and no trade logger and leaves
\* the open-position map unchanged
C18_StaleDropped == [][C18_Step]_vars

IsPhantom(m) ==
    /\ m.symbol \in DOMAIN PHANTOM_POSITIONS
    /\ m.qty = Num(PHANTOM_POSITIONS[m.symbol].qty)
    /\ m.avg_entry = Num(PHANTOM_POSITIONS[m.symbol].avg)

C19_Step ==
    (IsHandled("position") /\ IsPhantom(last_msg')) =>
        /\ \A i \in 1..Len(calls') :
            ~(calls'[i].op = "on_position_update" /\ calls'[i].to \in Range(Panels))
        /\ state_positions' = state_positions

\* C19: a position update matching a phantom entry reaches no consumer's
\* position hook and never changes the open-position map, on every path
C19_PhantomDropped == [][C19_Step]_vars

CarriesBalance(m) == m.TradeAccount # <<>> /\ m.balance # None

C20_StatedStep ==
    (IsHandled("balance") /\ CarriesBalance(last_msg')) =>
        state_balances'[DetectedMode(last_msg')] = last_msg'.balance[1]

C20_AmendedStep ==
    /\ (IsHandledBy("route", "balance") /\ CarriesBalance(last_msg')) =>
        /\ state_balances'[DetectedMode(last_msg')] = last_msg'.balance[1]
        /\ \A m \in Modes \ {DetectedMode(last_msg')} :
            state_balances'[m] = state_balances[m]
    /\ (IsHandledBy("signal", "balance") /\ CarriesBalance(last_msg')) =>
        IF DetectedMode(last_msg') = "SIM" \/ last_msg'.balance = Num(0)
        THEN state_balances' = state_balances
        ELSE /\ state_balances'[DetectedMode(last_msg')] = last_msg'.balance[1]
             /\ \A m \in Modes \ {DetectedMode(last_msg')} :
                    state_balances'[m] = state_balances[m]

BalanceRenderOps == {"set_account_balance", "update_equity_series_from_balance"}

Renders(cs) == \E i \in 1..Len(cs) : cs[i].op \in BalanceRenderOps

\* C21: a balance-render hook (set_account_balance or the equity-series
\* update) is invoked only for a balance whose derived mode is Session
\* State's current mode at the time of the call, by the signal handler, by
\* the marshalled _update_balance_ui and through route(), whatever mode
\* changes and balance updates came before
C21_RenderOnlyCurrentMode ==
    \A i \in 1..Len(calls) :
        calls[i].op \in BalanceRenderOps /\ calls[i].mode # ""
            => calls[i].mode = state_current_mode

\* a marshalled balance UI update ran after the mode had changed and
\* rendered nothing
C21_Witness ==
    /\ last_msg.path = "qt"
    /\ last_msg.kind = "balance_ui"
    /\ calls = <<>>
    /\ events = 2

C22_Step ==
    (/\ state_current_mode = "SIM"
     /\ \/ IsHandled("balance") /\ last_msg'.balance # None
        \/ qt_pending # <<>> /\ qt_pending' = Tail(qt_pending)) =>
        /\ state_balances'["SIM"] = state_balances["SIM"]
        /\ ~Renders(calls')

\* C22: while Session State's current mode is SIM, a balance update from
\* outside, by signal or through route(), changes neither the SIM balance
\* slot nor what panel_balance displays
C22_SimIgnoresBalances == [][C22_Step]_vars

\* ------------------------------------------------ error-handling claims
\* what the handler of the given path and kind does with message m
HandlerOutcome(path, kind, S, m, now_ms) ==
    CASE path = "signal" /\ kind = "order" -> on_order_signal(S, m, now_ms)
      [] path = "signal" /\ kind = "position" -> on_position_signal(S, m, now_ms)
      [] path = "signal" /\ kind = "balance" -> on_balance_signal(S, m)
      [] path = "route" /\ kind = "order" -> on_order_update(S, m)
      [] path = "route" /\ kind = "position" -> on_position_update(S, m)
      [] path = "route" /\ kind = "balance" -> on_balance_update(S, m)

MsgOf(l) == Msg(l.TradeAccount, l.symbol, l.qty, l.avg_entry, l.balance)

\* the calls the same handler makes on the same message when nothing raises
CallsWhenSound ==
    HandlerOutcome(last_msg'.path, last_msg'.kind,
                   [RouterState EXCEPT !.faulty = "none"], MsgOf(last_msg'), now')

C23_Step ==
    (events' = events + 1 /\ faulty # "none") =>
        LET sound == CallsWhenSound
        IN  /\ \A i \in 1..Len(sound.calls) :
                sound.calls[i].to # faulty =>
                    \E j \in 1..Len(calls') :
                        /\ calls'[j].to = sound.calls[i].to
                        /\ calls'[j].op = sound.calls[i].op
            /\ qt_pending' = sound.S.qt_pending
            /\ last_msg'.path = "signal" => ~last_msg'.raised

\* C23: when one collaborator raises while a message or a mode change is
\* delivered, every other collaborator the handler notifies when nothing
\* raises is notified all the same, and a signal handler returns normally
\* (what leaves a handler called by route(), route() catches)
C23_OthersStillNotified == [][C23_Step]_vars

\* -------------------------------------------------- UI refresh claims
\* C24: at most one flush is outstanding per router, and it is outstanding
\* only while the pending flag is set: a request made while a refresh is
\* pending arms no further timer, in any order of requests and flushes
C24_OneFlushOutstanding ==
    /\ ui_timers <= 1
    /\ ui_timers = 1 => ui_refresh_pending

\* a request arrived while a refresh was pending and one timer is armed
C24_Witness ==
    /\ last_msg.path = "refresh"
    /\ last_msg.kind = "request"
    /\ last_msg.pending
    /\ ui_timers = 1

IsUpdate(c) == c.op = "update"

C25_Step ==
    (events' = events + 1 /\ last_msg'.path = "route") =>
        \/ ui_refresh_pending'
        \/ \E i \in 1..Len(calls') : IsUpdate(calls'[i])

\* C25: every order, position or balance message through route() leaves a
\* refresh pending, or has flushed at once when no timer can be armed
C25_MessageMarksRefresh == [][C25_Step]_vars

\* _flush_ui_updates ran in this step, from a timer or at once
IsFlush ==
    \/ ui_timers' = ui_timers - 1
    \/ events' = events + 1 /\ last_msg'.path = "refresh" /\ last_msg'.kind = "flush"

C26_Step ==
    IsFlush =>
        /\ ~ui_refresh_pending'
        /\ \A p \in Range(Panels) :
            Cardinality({i \in 1..Len(calls') :
                            calls'[i].to = p /\ IsUpdate(calls'[i])}) = 1

\* C26: each flush clears the pending flag and calls update() on each of
\* the three panels exactly once, also when another panel's update() raises
C26_FlushUpdatesEveryPanel == [][C26_Step]_vars

\* ------------------------------------------------ classification claims
\* C27: for every kind in the lookup table, a record whose "Type" is the
\* kind's number and the same record with the kind's name as "Type" get the
\* same type name and the same typed consumer calls
C27_NumberAndNameAgree ==
    (/\ routed # <<>>
     /\ rx_msg[1].Type.t = "int"
     /\ rx_msg[1].Type.n \in DOMAIN TYPE_NAMES) =>
        LET named == [rx_msg[1] EXCEPT !.Type = StrT(TYPE_NAMES[rx_msg[1].Type.n])]
        IN  /\ routed[1].tname = type_name(named.Type)
            /\ routed[1].calls = typed_calls(named)

\* "Type": 306 on the last message of a positions seed reached on_position
\* and the seed-done callback
C27_Witness ==
    /\ routed # <<>>
    /\ rx_msg[1].Type = IntT(306)
    /\ routed[1].calls = <<"on_position", "on_positions_seed_done">>

\* a "Type" that is neither a key nor a name of the table nor a name the
\* dispatch tests for, or no "Type" at all
Unrecognized(v) ==
    \/ v.t \in {"none", "float"}
    \/ v.t = "int" /\ v.n \notin DOMAIN TYPE_NAMES
    \/ v.t = "str" /\ v.s \notin TableNames \cup DispatchNames

\* C28: a record with an unrecognized or missing "Type" gets no known type
\* name, reaches no typed consumer, and reaches the raw-stream hook whenever
\* on_any_message or on_msg was registered
C28_UnknownToRawHookOnly ==
    (routed # <<>> /\ Unrecognized(rx_msg[1].Type)) =>
        /\ routed[1].tname \notin TableNames \cup DispatchNames
        /\ routed[1].calls = <<>>
        /\ (raw_hooks.on_msg \/ raw_hooks.on_any_message) => routed[1].raw # <<>>

\* ---------------------------------------------------------- codec claims
\* C29: the bytes _send builds for a message hold no delimiter byte before
\* the one that ends them, and decoding the frame the receive loop cuts
\* from them gives back the message, key for key and value for value
C29_RoundTrip ==
    /\ encoded # <<>> =>
        /\ IndexOfNull(encoded) = Len(encoded)
        /\ FrameAt(encoded, IndexOfNull(encoded)) = json_dumps(obj)
    /\ decoded # <<>> => decoded[1].ok /\ decoded[1].val = obj

\* a message whose key and value hold a quote, a backslash and U+0000 came
\* back whole
C29_Witness ==
    /\ decoded # <<>>
    /\ decoded[1].ok
    /\ Len(obj) = 2
    /\ obj[2].key = <<"\"", "NUL", "é", "\\">>
    /\ obj[2].val = StrV(<<"NUL", "\\">>)

\* -------------------------------------------------------- framing claims
\* the bytes recv() has returned so far
Received == SubSeq(input, 1, rpos)

\* C30: whatever the reads, the frames cut so far, each followed by the
\* delimiter, and then the buffer are the bytes received: the frames cut
\* are the frames of those bytes in order, and what follows the last
\* delimiter cut is still buffered; and when the loop goes back to read, no
\* delimiter is left in the buffer
C30_FramesDependOnBytesOnly ==
    /\ Joined(extracted) \o rx_buf = Received
    /\ extracted \o SplitFrames(rx_buf) = SplitFrames(Received)
    /\ pc["rx"] \in {"r_check", "r_recv"} => IndexOfNull(rx_buf) = 0

\* a record whose first bytes came in an earlier read has been cut while a
\* second whole frame, delivered by the same read as the record's
\* delimiter, waits in the buffer
C30_Witness ==
    /\ pc["rx"] = "r_frames"
    /\ Len(extracted) = 1
    /\ WellFormed(extracted[1])
    /\ IndexOfNull(rx_buf) > 1
    /\ rpos = Len(extracted[1]) + 1 + Len(rx_buf)
    /\ rpos > MaxChunk

\* --------------------------------------------------- eligibility claims
\* the account is a string with something other than blanks in it
NonBlank(acct) == acct.kind = "str" /\ Strip(acct.val) # <<>>

\* the account is missing, empty or all blanks
EmptyOrBlank(acct) ==
    \/ acct.kind = "none"
    \/ acct.kind = "str" /\ Strip(acct.val) = <<>>

\* C31: the eligibility check passes for every order event (no quantity)
\* whose account is not blank, passes for a position event with such an
\* account exactly when its quantity is not zero, and fails for every event
\* whose account is empty or blank
C31_Eligibility ==
    last_switch.called =>
        LET c == last_switch
        IN  /\ (c.qty = None /\ NonBlank(c.acct)) => c.result
            /\ (c.qty # None /\ NonBlank(c.acct)) => (c.result <=> c.qty # Num(0))
            /\ EmptyOrBlank(c.acct) => ~c.result

\* a flat position on "Sim1" was checked and did not pass
C31_Witness ==
    /\ last_switch.called
    /\ last_switch.acct = Str(Sim1)
    /\ last_switch.qty = Num(0)
    /\ ~last_switch.result

\* ---------------------------------------------------- switch atomicity
\* the calls among cs that tell a consumer of a mode: set_trading_mode on a
\* panel, and Session State's modeChanged signal
ModeNotices(cs) ==
    SelectSeq(cs, LAMBDA c : c.op \in {"set_trading_mode", "modeChanged.emit"})

\* every panel has a set_trading_mode(m, acct) among cs, and cs tells of
\* no other mode
AllNotifiedOf(cs, m, acct) ==
    /\ \A p \in 1..Len(Panels) :
        \E i \in 1..Len(cs) :
            /\ cs[i].op = "set_trading_mode"
            /\ cs[i].to = Panels[p]
            /\ cs[i].account = acct
    /\ \A i \in 1..Len(cs) : cs[i].mode = m

SwitchIsAtomic ==
    LET acct == last_msg'.TradeAccount
        new_mode == detect_mode_from_account(Str(acct), live_account)
        notices == ModeNotices(calls')
    IN  \/ /\ r_current_mode' = new_mode
           /\ r_current_account' = acct
           /\ AllNotifiedOf(notices, new_mode, acct)
        \/ /\ r_current_mode' = r_current_mode
           /\ r_current_account' = r_current_account
           /\ notices = <<>>

C32_Step == (IsHandled("order") \/ IsHandled("position")) => SwitchIsAtomic

\* C32: after an order or position event is handled, either the router's
\* current mode and account are the event's pair and every panel was sent
\* set_trading_mode with that pair, or the router's pair is unchanged and
\* no consumer was told of a mode
C32_SwitchIsAtomic == [][C32_Step]_vars

\* ------------------------------------------------ balance frame claims
\* the step is a balance handler, or the marshalled _update_balance_ui
IsBalanceStep ==
    \/ IsHandled("balance")
    \/ last_msg'.kind = "balance_ui" /\ qt_pending' # qt_pending

\* the step changes a current mode, the current account or the debounce
\* queue, or tells a consumer of a mode
TouchesMode ==
    \/ r_current_mode' # r_current_mode
    \/ r_current_account' # r_current_account
    \/ state_current_mode' # state_current_mode
    \/ mode_candidates' # mode_candidates
    \/ IsBalanceStep /\ ModeNotices(calls') # <<>>

C33_Step ==
    /\ IsBalanceStep => ~TouchesMode
    /\ TouchesMode => (IsHandled("order") \/ IsHandled("position"))

\* C33: handling a balance update changes neither the current mode nor the
\* current account and sends no set_trading_mode; a step that changes them
\* is the handling of an order or a position
C33_BalanceNeverSwitches == [][C33_Step]_vars

\* a LIVE balance was stored while the current mode was another one
C33_Witness ==
    /\ last_msg.kind = "balance"
    /\ last_msg.TradeAccount = Acct120005
    /\ last_msg.balance # None
    /\ state_balances["LIVE"] # 0
    /\ state_current_mode # "LIVE"
    /\ r_current_mode # "LIVE"

\* ------------------------------------------------- current-pair claims
C36_Step ==
    (events' = events + 1 /\ r_current_mode = state_current_mode)
        => r_current_mode' = state_current_mode'

\* C36: after every message, whichever entry point handled it, the mode
\* the router tracks as current is Session State's current mode
C36_SingleCurrentMode == [][C36_Step]_vars

\* the pair is consistent: an account that is not empty maps to the mode
PairConsistent(m, acct) ==
    acct # <<>> => m = detect_mode_from_account(Str(acct), live_account)

C37_Step ==
    events' = events + 1 =>
        /\ PairConsistent(r_current_mode, r_current_account)
                => PairConsistent(r_current_mode', r_current_account')
        /\ PairConsistent(state_current_mode, state_current_account)
                => PairConsistent(state_current_mode', state_current_account')

\* C37: no message leaves a current pair whose account is not empty and
\* whose mode is not the one the account maps to, in the router or in
\* Session State
C37_PairConsistent == [][C37_Step]_vars

\* --------------------------------------------------------- retry claims
\* the recovery is a retry of an operation that was given
Retrying ==
    retry.recovery \in {"auto_retry", "cancel_retry"} /\ retry.has_operation

\* the attempt returned something truthy or None
AttemptSucceeded(result) == result = "truthy" \/ result = "None"

C34_Bounded ==
    Retrying =>
        /\ retry.invoked = Len(retry.results)
        /\ retry.invoked <= retry.max_retries
        /\ \A i \in 1..(Len(retry.results) - 1) : ~AttemptSucceeded(retry.results[i])
        /\ (retry.results # <<>> /\ AttemptSucceeded(retry.results[Len(retry.results)]))
                => retry.pc = "done"
        /\ retry.pc = "done" =>
            /\ retry.returned = "true"
                <=> \E i \in 1..Len(retry.results) : AttemptSucceeded(retry.results[i])
            /\ retry.returned = "false" => retry.invoked = retry.max_retries

\* C34: under a retry policy the operation is invoked at most max_retries
\* times, no attempt follows one that returned a truthy value or None, the
\* handler returns true exactly when some attempt succeeded and false after
\* max_retries failed attempts, and it always returns
C34_RetryTerminates == []C34_Bounded /\ <>(retry.pc = "done")

\* the third attempt returned None after one that raised and one that
\* returned something falsy, and the handler returned true
C34_Witness ==
    /\ Retrying
    /\ retry.pc = "done"
    /\ retry.returned = "true"
    /\ retry.invoked = 3
    /\ retry.results[3] = "None"
    /\ {retry.results[1], retry.results[2]} = {"raises", "falsy"}

\* ------------------------------------------------- consecutive signals
\* the call is an eligible event whose account maps to the current mode
CurrentModeEvent(c) ==
    /\ c.called
    /\ should_switch_mode(c.acct, c.qty)
    /\ detect_mode_from_account(c.acct, live_account) = c.current_mode

\* the call proposes another mode than the current one
Proposal(c) ==
    /\ c.called
    /\ should_switch_mode(c.acct, c.qty)
    /\ detect_mode_from_account(c.acct, live_account) # c.current_mode

C35_Step ==
    IsSwitchCall =>
        LET c == last_switch'
            between == last_switch
        IN  (/\ CurrentModeEvent(between)
             /\ between.before # <<>>
             /\ Proposal(c)
             /\ c.current_mode = between.current_mode
             /\ between.before[Len(between.before)].account = c.acct
             /\ between.before[Len(between.before)].mode
                    = detect_mode_from_account(c.acct, live_account))
                => ~c.result

\* C35: when an eligible event for the current mode arrives between two
\* proposals for the same other (mode, account), the second proposal does
\* not commit the switch
C35_RunIsBroken == [][C35_Step]_vars

\* ------------------------------------------------------ reconnect claims
\* the loops that have been started and have not returned
LiveLoops(kind) ==
    {l \in LoopIds : l[1] = kind /\ loops[l].pc \notin {"unborn", "done"}}

\* C38: a loop started for one connection never reads from, or sends a
\* heartbeat on, a later connection
C38_LoopsKeepToTheirConnection ==
    \A l \in LoopIds : loops[l].on \in {0, l[2]}


\* ------------------------------------------------------ trade log claims
\* the entry an open of message m at time t makes
OpenedBy(m, t) ==
    [open |-> TRUE, qty |-> m.qty[1], entry_price |-> m.avg_entry, entry_time |-> t]

C39_Step ==
    IsHandledBy("route", "position") =>
        LET m == last_msg'
        IN  /\ m.qty = Num(0) => ~open_positions'[m.symbol].open
            /\ (/\ m.qty # Num(0)
                /\ \E i \in 1..Len(calls') : calls'[i].to = "trade_manager"
                /\ last_msg.kind = "position"
                /\ last_msg.path = "route"
                /\ last_msg.symbol = m.symbol
                /\ last_msg.qty = Num(0))
                    => open_positions'[m.symbol] = OpenedBy(m, events')

\* C39: once a zero-quantity position update for a symbol has been routed
\* the trade logger holds no open entry for the symbol, and the next
\* non-zero update for it is logged as a new open with its own quantity,
\* entry price and entry time
C39_CloseReachesTradeLog == [][C39_Step]_vars


\* ------------------------------------------------------ watchdog claims
C40_Step ==
    (component.is_healthy /\ ~component'.is_healthy)
        => clock - component.last_heartbeat >= heartbeat_timeout

\* C40: whatever the interleaving of heartbeat() with the health check, a
\* component is marked unhealthy only when, at that moment, its latest
\* recorded heartbeat is at least its timeout old
C40_NoStaleVerdict == [][C40_Step]_vars

====
